---- MODULE Spec2Model ----
(***************************************************************************)
(* A model of the card-tapestry-value backend: the relational store        *)
(* (cards, card_prices, user_collections) as the schema migration defines  *)
(* it, and the three edge functions (Cards, Prices, Collections), each a   *)
(* repository / service / controller stack.  One action is one HTTP        *)
(* request handled from start to end; resp is the response it produced.    *)
(* The requests whose service makes two store calls (the update and the    *)
(* delete of a card, the statistics of a collection) are also modelled one *)
(* call a step, for the runs in which requests interleave.  The browser's  *)
(* ApiClient.makeRequest is modelled on the outcomes of its session lookup *)
(* and of fetch.                                                           *)
(*                                                                         *)
(* The store is modelled by its tables and their constraints (keys,        *)
(* foreign keys with cascade, UNIQUE, CHECK, enum and NOT NULL columns,    *)
(* DECIMAL rounding, defaults, the updated_at triggers).  The role under   *)
(* which a function reaches the store is taken to be granted the           *)
(* statements it issues; the ownership rule of user_collections is the     *)
(* user_id filter every collection query carries.  Row ids are UUIDs,      *)
(* written here as small integers: an id in a request is a well-formed id  *)
(* that names a row or names none.  Numeric query parameters are absent or *)
(* decimal literals.                                                       *)
(*                                                                         *)
(* Units.  Time is counted in whole days.  A price held by the store is a  *)
(* DECIMAL(10,2), kept here as an integer number of cents.  A price given  *)
(* in a request body is a JSON number, kept here in thousandths (mills),   *)
(* so that the store's rounding to two decimals is a real conversion.      *)
(***************************************************************************)
EXTENDS Integers, Sequences, FiniteSets, TLC

VARIABLES
    cards,        \* public.cards: id -> row
    nextCardId,   \* next id gen_random_uuid() hands to cards
    prices,       \* public.card_prices: id -> row
    nextPriceId,  \* next id gen_random_uuid() hands to card_prices
    collections,  \* public.user_collections: id -> row
    nextCollId,   \* next id gen_random_uuid() hands to user_collections
    now,          \* the clock (new Date(), now()), in days
    resp,         \* the last request and the response it was given
    fetched,      \* history: card id -> the body of the last successful GET of
                  \* the card since it was last written, and whether it was
                  \* fetched more than once since then
    pending       \* requests in flight between their two store calls: the
                  \* card is fetched and its update or delete is still to
                  \* come, or the entries are counted and their select is
                  \* still to come

vars == <<cards, nextCardId, prices, nextPriceId, collections, nextCollId, now, resp, fetched,
          pending>>
store == <<cards, nextCardId, prices, nextPriceId, collections, nextCollId>>

----------------------------------------------------------------------------
(* Bounds of the model *)

MaxPriceInserts == 2
MaxCardInserts == 1
MaxCollInserts == 2
MaxNow == 16

(* Program constants *)

HistoryDefaultDays == 30
HistoryMaxDays == 365
GainersDefaultLimit == 10
GainersMaxLimit == 50
CurrentWindowDays == 7
PreviousWindowDays == 14

validConditions == {"mint", "near_mint", "light_play", "moderate_play", "heavy_play", "damaged"}
validGames == {"yugioh", "mtg", "pokemon"}
validCurrencies == {"EUR", "USD", "GBP", "JPY"}

----------------------------------------------------------------------------
(* Optional values: <<>> is undefined / absent, <<v>> is the value v. *)

Absent == <<>>
Some(v) == <<v>>
IsSome(o) == Len(o) = 1
Val(o) == o[1]
OrElse(o, d) == IF IsSome(o) THEN o[1] ELSE d

(* A field of a request body read as a partial row: absent when the body   *)
(* lacks it.                                                               *)
Field(body, name) == IF name \in DOMAIN body THEN body[name] ELSE Absent

(* A JS Map: a sequence of [key, value] entries in insertion order. *)

MapHas(m, k) == \E i \in 1..Len(m) : m[i].key = k
MapGet(m, k) == m[CHOOSE i \in 1..Len(m) : m[i].key = k].value
MapSet(m, k, v) ==
    IF MapHas(m, k)
    THEN [i \in 1..Len(m) |-> IF m[i].key = k THEN [key |-> k, value |-> v] ELSE m[i]]
    ELSE Append(m, [key |-> k, value |-> v])
MapValues(m) == [i \in 1..Len(m) |-> m[i].value]

(* All orders in which the store may return the rows of a set. *)

RECURSIVE Perms(_)
Perms(S) ==
    IF S = {} THEN {<<>>}
    ELSE UNION {{<<x>> \o p : p \in Perms(S \ {x})} : x \in S}

Range(s) == {s[i] : i \in 1..Len(s)}

(* .order('recorded_at', {ascending}) : every order of the rows that is    *)
(* sorted on recorded_at; rows with equal recorded_at come in any order.   *)
OrderByRecordedAt(rows, ascending) ==
    {s \in Perms(rows) :
        \A i \in 1..Len(s) - 1 :
            IF ascending THEN s[i].recorded_at <= s[i + 1].recorded_at
                         ELSE s[i].recorded_at >= s[i + 1].recorded_at}

(* Array.prototype.slice(0, end) *)
Slice0(s, end) ==
    LET n == Len(s)
        k == IF end < 0 THEN (IF n + end < 0 THEN 0 ELSE n + end)
             ELSE (IF end > n THEN n ELSE end)
    IN SubSeq(s, 1, k)

(* price DECIMAL(10,2): the store rounds a number to two decimals, half    *)
(* away from zero.  From mills to cents.                                   *)
ToDecimal2(p) == IF p >= 0 THEN (p + 5) \div 10 ELSE 0 - ((5 - p) \div 10)

(* parseInt(url.searchParams.get(name) || dflt): an absent or empty        *)
(* parameter gives the default, a decimal literal its value.               *)
ParseIntParam(p, dflt) == IF IsSome(p) THEN Val(p) ELSE dflt

----------------------------------------------------------------------------
(* The store: rows and joins *)

PriceRows == {prices[i] : i \in DOMAIN prices}
CollRows == {collections[i] : i \in DOMAIN collections}

(* The select of card_prices with cards!inner: each price row with the     *)
(* card it references embedded as .cards; the foreign key makes the card   *)
(* exist.                                                                  *)
WithCard(r) ==
    [id |-> r.id, card_id |-> r.card_id, condition |-> r.condition, price |-> r.price,
     currency |-> r.currency, recorded_at |-> r.recorded_at, cards |-> cards[r.card_id]]

----------------------------------------------------------------------------
(* PriceRepository *)

(* A variant of LatestStep with the comparison of dates reversed. *)
LatestStepOlder(m, price) ==
    IF \/ ~MapHas(m, price.condition)
       \/ price.recorded_at < MapGet(m, price.condition).recorded_at
    THEN MapSet(m, price.condition, price)
    ELSE m

(* A variant of LatestStep that also takes a row as new as the one kept. *)
LatestStepLast(m, price) ==
    IF \/ ~MapHas(m, price.condition)
       \/ price.recorded_at >= MapGet(m, price.condition).recorded_at
    THEN MapSet(m, price.condition, price)
    ELSE m

(* The body of the forEach of getLatestPricesForCard: keep the row when   *)
(* its condition is new or it is strictly newer than the one kept.        *)
LatestStep(m, price) ==
    IF \/ ~MapHas(m, price.condition)
       \/ price.recorded_at > MapGet(m, price.condition).recorded_at
    THEN MapSet(m, price.condition, price)
    ELSE m

RECURSIVE LatestFold(_, _, _)
LatestFold(data, i, m) ==
    IF i > Len(data) THEN m ELSE LatestFold(data, i + 1, LatestStep(m, data[i]))

(* The rows the query of getLatestPricesForCard may return. *)
LatestPricesQuery(cardId) ==
    OrderByRecordedAt({r \in PriceRows : r.card_id = cardId}, FALSE)

(* getLatestPricesForCard on the rows the store returned. *)
PriceRepository_getLatestPricesForCard(data) == MapValues(LatestFold(data, 1, <<>>))

(* The rows the query of getPriceHistory may return. *)
PriceRepository_getPriceHistory(cardId, condition, days) ==
    LET cutoffDate == now - days
    IN OrderByRecordedAt({r \in PriceRows : /\ r.card_id = cardId
                                             /\ r.condition = condition
                                             /\ r.recorded_at >= cutoffDate}, TRUE)

(* The rows the query of getTopGainers may return. *)
TopGainersQuery(game) ==
    LET fourteenDaysAgo == now - PreviousWindowDays
    IN OrderByRecordedAt(
         {WithCard(r) : r \in {q \in PriceRows :
              /\ q.recorded_at >= fourteenDaysAgo
              /\ IsSome(game) => cards[q.card_id].game = Val(game)}}, FALSE)

(* The body of the forEach of getTopGainers.  The entry's key is carried   *)
(* in the value as .key, for the statements about keys; the code's value   *)
(* holds card, currentPrice, previousPrice, change and changePercent.      *)
GainersStep(m, priceRecord) ==
    LET key == <<priceRecord.card_id, priceRecord.condition>>
        sevenDaysAgo == now - CurrentWindowDays
        fourteenDaysAgo == now - PreviousWindowDays
        recordDate == priceRecord.recorded_at
        m1 == IF ~MapHas(m, key)
              THEN MapSet(m, key, [key |-> key, card |-> priceRecord.cards,
                                   currentPrice |-> 0, previousPrice |-> 0,
                                   change |-> 0, changePercent |-> [num |-> 0, den |-> 1]])
              ELSE m
        existing == MapGet(m1, key)
    IN IF recordDate >= sevenDaysAgo /\ existing.currentPrice = 0
       THEN MapSet(m1, key, [existing EXCEPT !.currentPrice = priceRecord.price])
       ELSE IF /\ recordDate < sevenDaysAgo
               /\ recordDate >= fourteenDaysAgo
               /\ existing.previousPrice = 0
            THEN MapSet(m1, key, [existing EXCEPT !.previousPrice = priceRecord.price])
            ELSE m1

RECURSIVE GainersFold(_, _, _)
GainersFold(data, i, m) ==
    IF i > Len(data) THEN m ELSE GainersFold(data, i + 1, GainersStep(m, data[i]))

(* A variant of the filter that asks only for a current price. *)
HasCurrentPrice(item) == item.currentPrice > 0

(* .filter(item => item.currentPrice > 0 && item.previousPrice > 0) *)
HasBothPrices(item) == item.currentPrice > 0 /\ item.previousPrice > 0

RECURSIVE FilterSeq(_, _)
FilterSeq(s, i) ==
    IF i > Len(s) THEN <<>>
    ELSE IF HasBothPrices(s[i]) THEN <<s[i]>> \o FilterSeq(s, i + 1)
         ELSE FilterSeq(s, i + 1)

(* .map: change = current - previous, changePercent = change / previous    *)
(* * 100, kept as the exact fraction num / den in lowest terms, den > 0.   *)
(* A division by 0 gives Infinity, -Infinity or NaN: den = 0 and num the   *)
(* sign of change.                                                         *)
RECURSIVE GCD(_, _)
GCD(a, b) == IF b = 0 THEN a ELSE GCD(b, a % b)

Percent(change, previous) ==
    IF previous = 0
    THEN [num |-> IF change > 0 THEN 1 ELSE IF change < 0 THEN 0 - 1 ELSE 0, den |-> 0]
    ELSE LET g1 == GCD(IF change < 0 THEN 0 - change ELSE change, previous)
             n1 == change \div g1
             d1 == previous \div g1
             g2 == GCD(100, d1)
         IN [num |-> n1 * (100 \div g2), den |-> d1 \div g2]

WithChange(item) ==
    [item EXCEPT !.change = item.currentPrice - item.previousPrice,
                 !.changePercent = Percent(item.currentPrice - item.previousPrice,
                                           item.previousPrice)]

(* A variant of the comparator that sorts the smallest change first. *)
SortsBeforeAscending(a, b) ==
    a.changePercent.num * b.changePercent.den < b.changePercent.num * a.changePercent.den

(* The comparator (a, b) => b.changePercent - a.changePercent is negative: *)
(* a sorts before b.                                                       *)
SortsBefore(a, b) ==
    a.changePercent.num * b.changePercent.den > b.changePercent.num * a.changePercent.den

(* Array.prototype.sort is stable: an item goes before the first item it   *)
(* sorts before, after every item it ties with.                            *)
InsertSorted(sorted, x) ==
    LET later == {j \in 1..Len(sorted) : SortsBefore(x, sorted[j])}
        k == IF later = {} THEN Len(sorted) + 1
             ELSE CHOOSE j \in later : \A j2 \in later : j <= j2
    IN SubSeq(sorted, 1, k - 1) \o <<x>> \o SubSeq(sorted, k, Len(sorted))

RECURSIVE SortGainers(_, _, _)
SortGainers(s, i, acc) ==
    IF i > Len(s) THEN acc ELSE SortGainers(s, i + 1, InsertSorted(acc, s[i]))

(* The gainers before .slice: filtered, with their change, sorted. *)
RankedGainers(data) ==
    LET values == MapValues(GainersFold(data, 1, <<>>))
        kept == FilterSeq(values, 1)
        changed == [i \in 1..Len(kept) |-> WithChange(kept[i])]
    IN SortGainers(changed, 1, <<>>)

(* The row getTopGainers returns for a gainer. *)
GainerRow(item) ==
    [id |-> "", card_id |-> item.card.id, condition |-> "near_mint",
     price |-> item.currentPrice, currency |-> "EUR", recorded_at |-> now,
     cards |-> item.card]

(* getTopGainers on the rows the store returned. *)
PriceRepository_getTopGainers(data, limit) ==
    IF Len(data) = 0 THEN <<>>
    ELSE LET gainers == Slice0(RankedGainers(data), limit)
         IN [i \in 1..Len(gainers) |-> GainerRow(gainers[i])]

----------------------------------------------------------------------------
(* Responses.  op names the route, req holds the request's inputs, error   *)
(* is the body's error string ("" when the body is not an error), calls    *)
(* counts the store calls the request issued.                              *)

Reply(op, req, status, body, calls) ==
    [op |-> op, req |-> req, status |-> status, error |-> "", body |-> body, calls |-> calls]
Failure(op, req, status, message, calls) ==
    [op |-> op, req |-> req, status |-> status, error |-> message, body |-> <<>>, calls |-> calls]
NoRequest == Reply("none", <<>>, 0, <<>>, 0)

(* Messages of the errors the guards of the three services throw. *)
ServiceErrors ==
    {"Card ID is required", "Card ID and condition are required",
     "Cannot fetch price history for more than 365 days", "Invalid card condition",
     "Invalid game type", "Limit cannot exceed 50", "Price must be greater than 0",
     "Invalid currency", "Price ID is required",
     "Invalid game type. Must be one of: yugioh, mtg, pokemon",
     "Limit cannot exceed 100 cards", "Card name is required",
     "Set name must be at least 2 characters long",
     "User ID is required", "User ID and Card ID are required",
     "Quantity must be greater than 0", "User ID and Collection ID are required"}

(* Messages of the errors the store raises. *)
StoreErrors ==
    {"violates foreign key constraint", "violates not-null constraint",
     "violates unique constraint", "violates check constraint",
     "invalid input value for enum", "JSON object requested, multiple (or no) rows returned"}

----------------------------------------------------------------------------
(* PriceService: the guards of each operation, as the message of the       *)
(* error thrown, "" when every guard passes.                               *)

PriceService_getCardPrices(cardId) ==
    IF ~IsSome(cardId) THEN "Card ID is required" ELSE ""

(* A variant of getPriceHistory's guards: the cap is off by one and the    *)
(* condition is not looked at.                                             *)
PriceService_getPriceHistoryLax(cardId, condition, days) ==
    IF ~IsSome(cardId) \/ ~IsSome(condition) THEN "Card ID and condition are required"
    ELSE IF days > HistoryMaxDays + 1 THEN "Cannot fetch price history for more than 365 days"
    ELSE ""

(* PriceService.getPriceHistory guards. *)
PriceService_getPriceHistory(cardId, condition, days) ==
    IF ~IsSome(cardId) \/ ~IsSome(condition) THEN "Card ID and condition are required"
    ELSE IF days > HistoryMaxDays THEN "Cannot fetch price history for more than 365 days"
    ELSE IF Val(condition) \notin validConditions THEN "Invalid card condition"
    ELSE ""

PriceService_getTopGainers(game, limit) ==
    IF IsSome(game) /\ Val(game) \notin validGames THEN "Invalid game type"
    ELSE IF limit > GainersMaxLimit THEN "Limit cannot exceed 50"
    ELSE ""

(* A variant of addPrice's guards that lets a price of 0 through. *)
PriceService_addPriceLax(cardId, condition, price, currency) ==
    IF ~IsSome(cardId) \/ ~IsSome(condition) THEN "Card ID and condition are required"
    ELSE IF IsSome(price) /\ Val(price) < 0 THEN "Price must be greater than 0"
    ELSE IF Val(condition) \notin validConditions THEN "Invalid card condition"
    ELSE IF currency \notin validCurrencies THEN "Invalid currency"
    ELSE ""

(* PriceService.addPrice guards. *)
PriceService_addPrice(cardId, condition, price, currency) ==
    IF ~IsSome(cardId) \/ ~IsSome(condition) THEN "Card ID and condition are required"
    ELSE IF IsSome(price) /\ Val(price) <= 0 THEN "Price must be greater than 0"
    ELSE IF Val(condition) \notin validConditions THEN "Invalid card condition"
    ELSE IF currency \notin validCurrencies THEN "Invalid currency"
    ELSE ""

PriceService_updatePrice(updates) ==
    IF IsSome(Field(updates, "price")) /\ Val(Field(updates, "price")) <= 0
    THEN "Price must be greater than 0"
    ELSE ""

(* The row shape getPriceHistory returns for each price. *)
HistoryItem(p) == [price |-> p.price, currency |-> p.currency, recorded_at |-> p.recorded_at]

----------------------------------------------------------------------------
(* The store's answer to an insert or update of card_prices: the message   *)
(* of the constraint it violates, "" when the row is accepted.             *)

PriceRowError(cardId, condition, price) ==
    IF ~IsSome(price) THEN "violates not-null constraint"
    ELSE IF condition \notin validConditions THEN "invalid input value for enum"
    ELSE IF cardId \notin DOMAIN cards THEN "violates foreign key constraint"
    ELSE ""

----------------------------------------------------------------------------
(* PriceController.handleRequest, one action per route *)

(* GET /prices/top-gainers?game=&limit=   The reply also records what  *)
(* the computation held: as .selected the key and the two prices of every  *)
(* entry of cardPriceChanges, as .gainers the key, the prices and the      *)
(* changePercent of the gainers in their order before .slice, and as       *)
(* .ranked the keys of .gainers.                                           *)
PriceGetTopGainers(game, limitParam) ==
    LET req == [game |-> game, limit |-> limitParam]
        limit == ParseIntParam(limitParam, GainersDefaultLimit)
        err == PriceService_getTopGainers(game, limit)
        Held(items) ==
            [i \in 1..Len(items) |->
                [key |-> items[i].key, currentPrice |-> items[i].currentPrice,
                 previousPrice |-> items[i].previousPrice,
                 changePercent |-> items[i].changePercent]]
    IN /\ IF err # ""
          THEN resp' = Failure("prices.topGainers", req, 500, err, 0)
          ELSE \E data \in TopGainersQuery(game) :
                  LET ranked == IF Len(data) = 0 THEN <<>> ELSE Held(RankedGainers(data))
                  IN resp' = [selected |-> Held(MapValues(GainersFold(data, 1, <<>>))),
                              gainers |-> ranked,
                              ranked |-> [i \in 1..Len(ranked) |-> ranked[i].key]] @@
                             Reply("prices.topGainers", req, 200,
                                   PriceRepository_getTopGainers(data, limit), 1)
       /\ UNCHANGED <<store, now, fetched, pending>>

(* GET /prices/history?card_id=&condition=&days= *)
PriceGetHistory(cardId, condition, daysParam) ==
    LET req == [card_id |-> cardId, condition |-> condition, days |-> daysParam]
        days == ParseIntParam(daysParam, HistoryDefaultDays)
        err == PriceService_getPriceHistory(cardId, condition, days)
    IN /\ IF ~IsSome(cardId) \/ ~IsSome(condition)
          THEN resp' = Failure("prices.history", req, 400, "card_id and condition are required", 0)
          ELSE IF err # ""
          THEN resp' = Failure("prices.history", req, 500, err, 0)
          ELSE \E data \in PriceRepository_getPriceHistory(Val(cardId), Val(condition), days) :
                  resp' = Reply("prices.history", req, 200,
                                [card_id |-> Val(cardId), condition |-> Val(condition),
                                 prices |-> [i \in 1..Len(data) |-> HistoryItem(data[i])]], 1)
       /\ UNCHANGED <<store, now, fetched, pending>>

(* GET /prices?card_id=   The reply also records, as .data, the rows in  *)
(* the order the store returned them.                                      *)
PriceGetLatest(cardId) ==
    LET req == [card_id |-> cardId]
        err == PriceService_getCardPrices(cardId)
    IN /\ IF ~IsSome(cardId)
          THEN resp' = Failure("prices.latest", req, 400, "card_id is required", 0)
          ELSE IF err # ""
          THEN resp' = Failure("prices.latest", req, 500, err, 0)
          ELSE \E data \in LatestPricesQuery(Val(cardId)) :
                  resp' = [data |-> data] @@
                          Reply("prices.latest", req, 200,
                                PriceRepository_getLatestPricesForCard(data), 1)
       /\ UNCHANGED <<store, now, fetched, pending>>

(* A variant of POST /prices that writes the new price over a row of the   *)
(* same card and condition when there is one.                              *)
PricePostUpsert(cardId, condition, price, currencyField) ==
    LET req == [card_id |-> cardId, condition |-> condition, price |-> price,
                currency |-> currencyField]
        currency == OrElse(currencyField, "EUR")
        err == PriceService_addPrice(cardId, condition, price, currency)
        storeErr == PriceRowError(Val(cardId), Val(condition), price)
        same == {i \in DOMAIN prices : /\ prices[i].card_id = Val(cardId)
                                       /\ prices[i].condition = Val(condition)}
        id == IF same = {} THEN nextPriceId ELSE CHOOSE i \in same : TRUE
        row == [id |-> id, card_id |-> Val(cardId), condition |-> Val(condition),
                price |-> ToDecimal2(Val(price)), currency |-> currency, recorded_at |-> now]
    IN IF err # ""
       THEN /\ resp' = Failure("prices.add", req, 500, err, 0)
            /\ UNCHANGED <<store, now, fetched, pending>>
       ELSE IF storeErr # ""
       THEN /\ resp' = Failure("prices.add", req, 500, storeErr, 1)
            /\ UNCHANGED <<store, now, fetched, pending>>
       ELSE /\ prices' = (id :> row) @@ prices
            /\ nextPriceId' = nextPriceId + 1
            /\ resp' = Reply("prices.add", req, 201, row, 1)
            /\ UNCHANGED <<cards, nextCardId, collections, nextCollId, now, fetched, pending>>

(* A variant of POST /prices that inserts the row before the service's     *)
(* guards are looked at.                                                   *)
PricePostInsertFirst(cardId, condition, price, currencyField) ==
    LET req == [card_id |-> cardId, condition |-> condition, price |-> price,
                currency |-> currencyField]
        currency == OrElse(currencyField, "EUR")
        err == PriceService_addPrice(cardId, condition, price, currency)
        storeErr == IF IsSome(cardId) /\ IsSome(condition)
                    THEN PriceRowError(Val(cardId), Val(condition), price)
                    ELSE "violates not-null constraint"
        row == [id |-> nextPriceId, card_id |-> Val(cardId), condition |-> Val(condition),
                price |-> ToDecimal2(Val(price)), currency |-> currency, recorded_at |-> now]
    IN IF storeErr # ""
       THEN /\ resp' = Failure("prices.add", req, 500, storeErr, 1)
            /\ UNCHANGED <<store, now, fetched, pending>>
       ELSE /\ prices' = (nextPriceId :> row) @@ prices
            /\ nextPriceId' = nextPriceId + 1
            /\ resp' = IF err # ""
                       THEN Failure("prices.add", req, 500, err, 1)
                       ELSE Reply("prices.add", req, 201, row, 1)
            /\ UNCHANGED <<cards, nextCardId, collections, nextCollId, now, fetched, pending>>

(* POST /prices with body {card_id, condition, price, currency} *)
PricePost(cardId, condition, price, currencyField) ==
    LET req == [card_id |-> cardId, condition |-> condition, price |-> price,
                currency |-> currencyField]
        currency == OrElse(currencyField, "EUR")
        err == PriceService_addPrice(cardId, condition, price, currency)
        storeErr == PriceRowError(Val(cardId), Val(condition), price)
        row == [id |-> nextPriceId, card_id |-> Val(cardId), condition |-> Val(condition),
                price |-> ToDecimal2(Val(price)), currency |-> currency, recorded_at |-> now]
    IN IF err # ""
       THEN /\ resp' = Failure("prices.add", req, 500, err, 0)
            /\ UNCHANGED <<store, now, fetched, pending>>
       ELSE IF storeErr # ""
       THEN /\ resp' = Failure("prices.add", req, 500, storeErr, 1)
            /\ UNCHANGED <<store, now, fetched, pending>>
       ELSE /\ prices' = (nextPriceId :> row) @@ prices
            /\ nextPriceId' = nextPriceId + 1
            /\ resp' = Reply("prices.add", req, 201, row, 1)
            /\ UNCHANGED <<cards, nextCardId, collections, nextCollId, now, fetched, pending>>

(* The row of card_prices after update(updates). *)
UpdatedPrice(row, updates) ==
    LET New(name, old) == IF IsSome(Field(updates, name)) THEN Val(Field(updates, name)) ELSE old
    IN [row EXCEPT !.price = IF IsSome(Field(updates, "price"))
                             THEN ToDecimal2(Val(Field(updates, "price"))) ELSE @,
                   !.condition = New("condition", @),
                   !.currency = New("currency", @),
                   !.recorded_at = New("recorded_at", @)]

(* PUT /prices/<id> with body updates.  The store refuses a condition      *)
(* outside the enum whatever rows the update matches; currency is CHAR(3)  *)
(* and takes any three letters.                                            *)
PricePut(priceId, updates) ==
    LET req == [id |-> priceId, updates |-> updates]
        err == PriceService_updatePrice(updates)
    IN IF err # ""
       THEN /\ resp' = Failure("prices.update", req, 500, err, 0)
            /\ UNCHANGED <<store, now, fetched, pending>>
       ELSE IF /\ IsSome(Field(updates, "condition"))
               /\ Val(Field(updates, "condition")) \notin validConditions
       THEN /\ resp' = Failure("prices.update", req, 500, "invalid input value for enum", 1)
            /\ UNCHANGED <<store, now, fetched, pending>>
       ELSE IF priceId \notin DOMAIN prices
       THEN /\ resp' = Failure("prices.update", req, 500,
                               "JSON object requested, multiple (or no) rows returned", 1)
            /\ UNCHANGED <<store, now, fetched, pending>>
       ELSE /\ prices' = [prices EXCEPT ![priceId] = UpdatedPrice(@, updates)]
            /\ resp' = Reply("prices.update", req, 200, UpdatedPrice(prices[priceId], updates), 1)
            /\ UNCHANGED <<cards, nextCardId, nextPriceId, collections, nextCollId, now, fetched, pending>>

(* DELETE /prices/<id> *)
PriceDelete(priceId) ==
    /\ prices' = [i \in DOMAIN prices \ {priceId} |-> prices[i]]
    /\ resp' = Reply("prices.delete", [id |-> priceId], 200, [success |-> TRUE], 1)
    /\ UNCHANGED <<cards, nextCardId, nextPriceId, collections, nextCollId, now, fetched, pending>>

(* Any other method reaches the default branch; OPTIONS is answered by     *)
(* serve before the controller is built.                                   *)
PriceOtherMethod(method) ==
    /\ resp' = IF method = "OPTIONS"
               THEN Reply("prices.options", [method |-> method], 200, <<>>, 0)
               ELSE Failure("prices.other", [method |-> method], 405, "Method not allowed", 0)
    /\ UNCHANGED <<store, now, fetched, pending>>

----------------------------------------------------------------------------
(* CardRepository / CardService / CardController *)

CardRows == {cards[i] : i \in DOMAIN cards}

(* String.prototype.trim on the names the requests carry. *)
Trim(name) ==
    CASE name = "   " -> ""
      [] name = " Kuriboh " -> "Kuriboh"
      [] OTHER -> name

(* CardService.getCards guards. *)
CardService_getCards(game, limit) ==
    IF IsSome(game) /\ Val(game) \notin validGames
    THEN "Invalid game type. Must be one of: yugioh, mtg, pokemon"
    ELSE IF limit > 100 THEN "Limit cannot exceed 100 cards"
    ELSE ""

(* CardService.createCard guards. *)
CardService_createCard(cardData) ==
    IF ~IsSome(cardData.name) \/ Trim(Val(cardData.name)) = "" THEN "Card name is required"
    ELSE IF ~IsSome(cardData.game) \/ Val(cardData.game) \notin validGames
    THEN "Invalid game type"
    ELSE ""

(* CardRepository.getCardById: the row, or null (here Absent) when the     *)
(* store reports no row.                                                   *)
CardRepository_getCardById(cardId) ==
    IF cardId \in DOMAIN cards THEN Some(cards[cardId]) ELSE Absent

(* The store's answer to an insert or update of cards; a NULL set_name or  *)
(* card_number never collides under UNIQUE.                                *)
CardRowError(row) ==
    IF row.game \notin validGames THEN "invalid input value for enum"
    ELSE IF \E c \in CardRows : /\ c.id # row.id
                                /\ IsSome(row.set_name) /\ IsSome(row.card_number)
                                /\ c.name = row.name
                                /\ c.game = row.game
                                /\ c.set_name = row.set_name
                                /\ c.card_number = row.card_number
    THEN "violates unique constraint"
    ELSE ""

(* The card row after update(updates); the trigger stamps updated_at. *)
UpdatedCard(row, updates) ==
    [row EXCEPT !.name = IF IsSome(updates.name) THEN Val(updates.name) ELSE @,
                !.game = IF IsSome(updates.game) THEN Val(updates.game) ELSE @,
                !.updated_at = now]

(* The fetch history after a write to a card: its entry is dropped. *)
Forget(cardId) == [c \in DOMAIN fetched \ {cardId} |-> fetched[c]]

(* GET /cards?game=&limit=   Requests carry no search, set, offset or      *)
(* include_prices parameter; the body is taken as the set of rows.         *)
CardGetList(game, limitParam) ==
    LET req == [game |-> game, limit |-> limitParam]
        limit == ParseIntParam(limitParam, 50)
        err == CardService_getCards(game, limit)
    IN /\ resp' = IF err # ""
                  THEN Failure("cards.list", req, 500, err, 0)
                  ELSE Reply("cards.list", req, 200,
                             {c \in CardRows : IsSome(game) => c.game = Val(game)}, 1)
       /\ UNCHANGED <<store, now, fetched, pending>>

(* A variant of GET /cards/<id> that stamps updated_at on the card read. *)
CardGetTouching(cardId) ==
    LET req == [id |-> cardId]
        card == CardRepository_getCardById(cardId)
    IN IF ~IsSome(card)
       THEN /\ resp' = Failure("cards.get", req, 404, "Card not found", 1)
            /\ UNCHANGED <<store, now, fetched, pending>>
       ELSE /\ resp' = Reply("cards.get", req, 200, Val(card), 1)
            /\ cards' = [cards EXCEPT ![cardId].updated_at = now]
            /\ fetched' = (cardId :> [body |-> Val(card), again |-> cardId \in DOMAIN fetched])
                           @@ fetched
            /\ UNCHANGED <<nextCardId, prices, nextPriceId, collections, nextCollId, now, pending>>

(* GET /cards/<id> *)
CardGet(cardId) ==
    LET req == [id |-> cardId]
        card == CardRepository_getCardById(cardId)
    IN /\ IF ~IsSome(card)
          THEN /\ resp' = Failure("cards.get", req, 404, "Card not found", 1)
               /\ UNCHANGED <<fetched, pending>>
          ELSE /\ resp' = Reply("cards.get", req, 200, Val(card), 1)
               /\ fetched' = (cardId :> [body |-> Val(card), again |-> cardId \in DOMAIN fetched])
                              @@ fetched
       /\ UNCHANGED <<store, now, pending>>

(* POST /cards with body cardData *)
CardPost(cardData) ==
    LET err == CardService_createCard(cardData)
        row == [id |-> nextCardId, name |-> Trim(Val(cardData.name)), game |-> Val(cardData.game),
                set_name |-> cardData.set_name, card_number |-> cardData.card_number,
                updated_at |-> now]
    IN IF err # ""
       THEN /\ resp' = Failure("cards.create", cardData, 500, err, 0)
            /\ UNCHANGED <<store, now, fetched, pending>>
       ELSE IF CardRowError(row) # ""
       THEN /\ resp' = Failure("cards.create", cardData, 500, CardRowError(row), 1)
            /\ UNCHANGED <<store, now, fetched, pending>>
       ELSE /\ cards' = (nextCardId :> row) @@ cards
            /\ nextCardId' = nextCardId + 1
            /\ resp' = Reply("cards.create", cardData, 201, row, 1)
            /\ UNCHANGED <<prices, nextPriceId, collections, nextCollId, now, fetched, pending>>

(* A variant of PUT /cards/<id> without the service's existence check: the *)
(* repository's update of no row fails in .single().                       *)
CardPutUnchecked(cardId, updates) ==
    LET req == [id |-> cardId, updates |-> updates]
    IN IF cardId \notin DOMAIN cards
       THEN /\ resp' = Failure("cards.update", req, 500,
                               "JSON object requested, multiple (or no) rows returned", 1)
            /\ UNCHANGED <<store, now, fetched, pending>>
       ELSE IF CardRowError(UpdatedCard(cards[cardId], updates)) # ""
       THEN /\ resp' = Failure("cards.update", req, 500,
                               CardRowError(UpdatedCard(cards[cardId], updates)), 1)
            /\ UNCHANGED <<store, now, fetched, pending>>
       ELSE /\ cards' = [cards EXCEPT ![cardId] = UpdatedCard(@, updates)]
            /\ resp' = Reply("cards.update", req, 200, UpdatedCard(cards[cardId], updates), 1)
            /\ fetched' = Forget(cardId)
            /\ UNCHANGED <<nextCardId, prices, nextPriceId, collections, nextCollId, now, pending>>

(* PUT /cards/<id> with body updates: the service fetches the card, then   *)
(* the repository updates it.                                              *)
CardPut(cardId, updates) ==
    LET req == [id |-> cardId, updates |-> updates]
        card == CardRepository_getCardById(cardId)
    IN IF ~IsSome(card)
       THEN /\ resp' = Failure("cards.update", req, 404, "Card not found", 1)
            /\ UNCHANGED <<store, now, fetched, pending>>
       ELSE IF CardRowError(UpdatedCard(Val(card), updates)) # ""
       THEN /\ resp' = Failure("cards.update", req, 500,
                               CardRowError(UpdatedCard(Val(card), updates)), 2)
            /\ UNCHANGED <<store, now, fetched, pending>>
       ELSE /\ cards' = [cards EXCEPT ![cardId] = UpdatedCard(@, updates)]
            /\ resp' = Reply("cards.update", req, 200, UpdatedCard(Val(card), updates), 2)
            /\ fetched' = Forget(cardId)
            /\ UNCHANGED <<nextCardId, prices, nextPriceId, collections, nextCollId, now, pending>>

(* A variant of DELETE /cards/<id> on tables whose card_id columns do not   *)
(* reference cards: only the card row goes.                                *)
CardDeleteOnly(cardId) ==
    LET req == [id |-> cardId]
        card == CardRepository_getCardById(cardId)
    IN IF ~IsSome(card)
       THEN /\ resp' = Failure("cards.delete", req, 404, "Card not found", 1)
            /\ UNCHANGED <<store, now, fetched, pending>>
       ELSE /\ cards' = [c \in DOMAIN cards \ {cardId} |-> cards[c]]
            /\ resp' = Reply("cards.delete", req, 200, [success |-> TRUE], 2)
            /\ fetched' = Forget(cardId)
            /\ UNCHANGED <<nextCardId, prices, nextPriceId, collections, nextCollId, now, pending>>

(* DELETE /cards/<id>: the service fetches the card, then the repository   *)
(* deletes it; the foreign keys of card_prices and user_collections        *)
(* cascade.                                                                *)
CardDelete(cardId) ==
    LET req == [id |-> cardId]
        card == CardRepository_getCardById(cardId)
    IN IF ~IsSome(card)
       THEN /\ resp' = Failure("cards.delete", req, 404, "Card not found", 1)
            /\ UNCHANGED <<store, now, fetched, pending>>
       ELSE /\ cards' = [c \in DOMAIN cards \ {cardId} |-> cards[c]]
            /\ prices' = [i \in {j \in DOMAIN prices : prices[j].card_id # cardId} |-> prices[i]]
            /\ collections' = [i \in {j \in DOMAIN collections : collections[j].card_id # cardId}
                                 |-> collections[i]]
            /\ resp' = Reply("cards.delete", req, 200, [success |-> TRUE], 2)
            /\ fetched' = Forget(cardId)
            /\ UNCHANGED <<nextCardId, nextPriceId, nextCollId, now, pending>>

(* Any other method reaches the default branch; OPTIONS is answered by     *)
(* serve.                                                                  *)
CardOtherMethod(method) ==
    /\ resp' = IF method = "OPTIONS"
               THEN Reply("cards.options", [method |-> method], 200, <<>>, 0)
               ELSE Failure("cards.other", [method |-> method], 405, "Method not allowed", 0)
    /\ UNCHANGED <<store, now, fetched, pending>>

----------------------------------------------------------------------------
(* CollectionRepository / CollectionService / CollectionController *)

(* .order('created_at', { ascending: false }): every order of rows with    *)
(* the newest first; rows of one date come in any order.                   *)
OrderByCreatedAtDesc(rows) ==
    {s \in Perms(rows) : \A i \in 1..Len(s) - 1 : s[i].created_at >= s[i + 1].created_at}

(* .order('recorded_at', { ascending: false, referencedTable:              *)
(* 'card_prices' }): the embedded price rows newest first.                 *)
OrderByEmbeddedRecordedAtDesc(rows) ==
    {s \in Perms(rows) :
        \A i \in 1..Len(s) - 1 :
            s[i].card_prices.recorded_at >= s[i + 1].card_prices.recorded_at}

(* The users of the identity provider. *)
Users == {"u1", "u2"}

(* A variant of getUser that takes any token for the first user. *)
GetUserTrusting(authHeader) ==
    IF IsSome(authHeader) THEN Some("u1") ELSE Absent

(* supabase.auth.getUser() for the request's authorization header: the     *)
(* user the token resolves to, if any.                                     *)
GetUser(authHeader) ==
    IF IsSome(authHeader) /\ Val(authHeader) \in Users THEN authHeader ELSE Absent

EntriesOf(userId) == {e \in CollRows : e.user_id = userId}

(* getUserCollections: the user's entries, newest first, each with its     *)
(* card embedded.                                                          *)
CollectionRepository_getUserCollections(userId) ==
    OrderByCreatedAtDesc(
        {[id |-> e.id, user_id |-> e.user_id, card_id |-> e.card_id,
          condition |-> e.condition, quantity |-> e.quantity,
          created_at |-> e.created_at, updated_at |-> e.updated_at,
          cards |-> cards[e.card_id]] : e \in EntriesOf(userId)})

(* The second query of getCollectionStats, as the code reads its result:   *)
(* one item per entry of the user and price row of the entry's card (the   *)
(* tables are related through cards), the price row embedded as            *)
(* .card_prices; an entry whose card has no price row yields no item.      *)
(* price_id tells apart the items of two equal price rows.                 *)
StatsItems(e) ==
    {[id |-> e.id, card_id |-> e.card_id, condition |-> e.condition, quantity |-> e.quantity,
      cards |-> cards[e.card_id], price_id |-> p.id,
      card_prices |-> [price |-> p.price, recorded_at |-> p.recorded_at]] :
        p \in {q \in PriceRows : q.card_id = e.card_id}}

(* The items in the orders the store may return them: the entries in any   *)
(* order, the price rows of each newest first.                             *)
RECURSIVE StatsItemsInOrder(_)
StatsItemsInOrder(entrySeq) ==
    IF Len(entrySeq) = 0 THEN {<<>>}
    ELSE {a \o b : a \in OrderByEmbeddedRecordedAtDesc(StatsItems(Head(entrySeq))),
                   b \in StatsItemsInOrder(Tail(entrySeq))}

(* The schema relates user_collections and card_prices only through cards, *)
(* so the store may also refuse the embedding; the code drops the error    *)
(* and is left with data = null.                                           *)
StatsQuery(userId) ==
    {Absent} \cup {Some(items) : items \in UNION {StatsItemsInOrder(s) : s \in Perms(EntriesOf(userId))}}

(* The first forEach of getCollectionStats: the newest price per key. *)
StatsStep(m, item) ==
    LET cardKey == <<item.card_id, item.condition>>
    IN IF \/ ~MapHas(m, cardKey)
          \/ item.card_prices.recorded_at > MapGet(m, cardKey).recorded_at
       THEN MapSet(m, cardKey, item.card_prices)
       ELSE m

RECURSIVE StatsFold(_, _, _)
StatsFold(items, i, m) ==
    IF i > Len(items) THEN m ELSE StatsFold(items, i + 1, StatsStep(m, items[i]))

(* The second forEach: totalValue += latestPrice.price * item.quantity. *)
RECURSIVE TotalValue(_, _, _)
TotalValue(items, i, m) ==
    IF i > Len(items) THEN 0
    ELSE LET cardKey == <<items[i].card_id, items[i].condition>>
         IN (IF MapHas(m, cardKey) THEN MapGet(m, cardKey).price * items[i].quantity ELSE 0)
            + TotalValue(items, i + 1, m)

(* The price the sort of getCollectionStats gives an item. *)
PriceOrZero(m, item) ==
    LET cardKey == <<item.card_id, item.condition>>
    IN IF MapHas(m, cardKey) THEN MapGet(m, cardKey).price ELSE 0

(* collections.sort((a, b) => priceB - priceA), a stable sort. *)
RECURSIVE SortByPrice(_, _, _, _)
SortByPrice(items, i, m, acc) ==
    IF i > Len(items) THEN acc
    ELSE LET x == items[i]
             later == {j \in 1..Len(acc) : PriceOrZero(m, x) > PriceOrZero(m, acc[j])}
             k == IF later = {} THEN Len(acc) + 1
                  ELSE CHOOSE j \in later : \A j2 \in later : j <= j2
         IN SortByPrice(items, i + 1, m,
                        SubSeq(acc, 1, k - 1) \o <<x>> \o SubSeq(acc, k, Len(acc)))

(* The label of the rarest card. *)
Label(card) == [name |-> card.name, set_name |-> card.set_name]

(* getCollectionStats on the count and the data the store returned.      *)
(* topGainer is the code's placeholder, 8.2 written in tenths.             *)
CollectionRepository_getCollectionStats(totalCards, data) ==
    LET items == OrElse(data, <<>>)
        cardPriceMap == StatsFold(items, 1, <<>>)
        sortedByPrice == SortByPrice(items, 1, cardPriceMap, <<>>)
    IN [totalCards |-> totalCards,
        totalValue |-> IF Len(items) > 0 THEN TotalValue(items, 1, cardPriceMap) ELSE 0,
        topGainer |-> [name |-> "Dark Magician", change |-> 82],
        rarest |-> IF Len(items) > 0 THEN Some(Label(sortedByPrice[1].cards)) ELSE Absent]

(* CollectionService.addCardToCollection guards. *)
CollectionService_addCardToCollection(cardId, condition, quantity) ==
    IF ~IsSome(cardId) THEN "User ID and Card ID are required"
    ELSE IF IsSome(quantity) /\ Val(quantity) <= 0 THEN "Quantity must be greater than 0"
    ELSE IF ~IsSome(condition) \/ Val(condition) \notin validConditions
    THEN "Invalid card condition"
    ELSE ""

(* A variant of the table's constraints without UNIQUE(user_id, card_id,   *)
(* condition).                                                             *)
CollRowErrorNoUnique(row) ==
    IF row.condition \notin validConditions THEN "invalid input value for enum"
    ELSE IF row.card_id \notin DOMAIN cards THEN "violates foreign key constraint"
    ELSE IF row.quantity <= 0 THEN "violates check constraint"
    ELSE ""

(* The store's answer to an insert or update of user_collections. *)
CollRowError(row) ==
    IF row.condition \notin validConditions THEN "invalid input value for enum"
    ELSE IF row.card_id \notin DOMAIN cards THEN "violates foreign key constraint"
    ELSE IF row.quantity <= 0 THEN "violates check constraint"
    ELSE IF \E e \in CollRows : /\ e.id # row.id
                                /\ e.user_id = row.user_id
                                /\ e.card_id = row.card_id
                                /\ e.condition = row.condition
    THEN "violates unique constraint"
    ELSE ""

(* The entry after update(updates); the trigger stamps updated_at. *)
UpdatedEntry(row, updates) ==
    [row EXCEPT !.quantity = IF IsSome(updates.quantity) THEN Val(updates.quantity) ELSE @,
                !.condition = IF IsSome(updates.condition) THEN Val(updates.condition) ELSE @,
                !.updated_at = now]

(* The two 401 answers of handleRequest, "" when the caller is a user. *)
AuthError(authHeader) ==
    IF ~IsSome(authHeader) THEN "Authorization header required"
    ELSE IF ~IsSome(GetUser(authHeader)) THEN "Unauthorized"
    ELSE ""

(* GET /collections/stats *)
CollGetStats(authHeader) ==
    LET req == [auth |-> authHeader]
        userId == Val(GetUser(authHeader))
    IN /\ IF AuthError(authHeader) # ""
          THEN resp' = Failure("collections.stats", req, 401, AuthError(authHeader), 0)
          ELSE \E data \in StatsQuery(userId) :
                  resp' = [joined |-> IsSome(data)] @@
                          Reply("collections.stats", req, 200,
                                CollectionRepository_getCollectionStats(
                                    Cardinality(EntriesOf(userId)), data), 2)
       /\ UNCHANGED <<store, now, fetched, pending>>

(* GET /collections *)
CollGetList(authHeader) ==
    LET req == [auth |-> authHeader]
    IN /\ IF AuthError(authHeader) # ""
          THEN resp' = Failure("collections.list", req, 401, AuthError(authHeader), 0)
          ELSE \E rows \in CollectionRepository_getUserCollections(Val(GetUser(authHeader))) :
                  resp' = Reply("collections.list", req, 200, rows, 1)
       /\ UNCHANGED <<store, now, fetched, pending>>

(* POST /collections with body {card_id, condition, quantity}; a body      *)
(* without quantity takes the column's default, 1.                         *)
CollPost(authHeader, cardId, condition, quantity) ==
    LET req == [auth |-> authHeader, card_id |-> cardId, condition |-> condition,
                quantity |-> quantity]
        err == CollectionService_addCardToCollection(cardId, condition, quantity)
        row == [id |-> nextCollId, user_id |-> Val(GetUser(authHeader)), card_id |-> Val(cardId),
                condition |-> Val(condition), quantity |-> OrElse(quantity, 1),
                created_at |-> now, updated_at |-> now]
    IN IF AuthError(authHeader) # ""
       THEN /\ resp' = Failure("collections.add", req, 401, AuthError(authHeader), 0)
            /\ UNCHANGED <<store, now, fetched, pending>>
       ELSE IF err # ""
       THEN /\ resp' = Failure("collections.add", req, 500, err, 0)
            /\ UNCHANGED <<store, now, fetched, pending>>
       ELSE IF CollRowError(row) # ""
       THEN /\ resp' = Failure("collections.add", req, 500, CollRowError(row), 1)
            /\ UNCHANGED <<store, now, fetched, pending>>
       ELSE /\ collections' = (nextCollId :> row) @@ collections
            /\ nextCollId' = nextCollId + 1
            /\ resp' = Reply("collections.add", req, 201, row, 1)
            /\ UNCHANGED <<cards, nextCardId, prices, nextPriceId, now, fetched, pending>>

(* PUT /collections/<id> with body updates *)
CollPut(authHeader, collectionId, updates) ==
    LET req == [auth |-> authHeader, id |-> collectionId, updates |-> updates]
        userId == Val(GetUser(authHeader))
        found == collectionId \in DOMAIN collections /\ collections[collectionId].user_id = userId
        row == UpdatedEntry(collections[collectionId], updates)
    IN IF AuthError(authHeader) # ""
       THEN /\ resp' = Failure("collections.update", req, 401, AuthError(authHeader), 0)
            /\ UNCHANGED <<store, now, fetched, pending>>
       ELSE IF ~found
       THEN /\ resp' = Failure("collections.update", req, 500,
                               "JSON object requested, multiple (or no) rows returned", 1)
            /\ UNCHANGED <<store, now, fetched, pending>>
       ELSE IF CollRowError(row) # ""
       THEN /\ resp' = Failure("collections.update", req, 500, CollRowError(row), 1)
            /\ UNCHANGED <<store, now, fetched, pending>>
       ELSE /\ collections' = [collections EXCEPT ![collectionId] = row]
            /\ resp' = Reply("collections.update", req, 200, row, 1)
            /\ UNCHANGED <<cards, nextCardId, prices, nextPriceId, nextCollId, now, fetched, pending>>

(* A variant of DELETE /collections/<id> whose delete lacks the user_id     *)
(* filter.                                                                 *)
CollDeleteAnyOwner(authHeader, collectionId) ==
    LET req == [auth |-> authHeader, id |-> collectionId]
    IN IF AuthError(authHeader) # ""
       THEN /\ resp' = Failure("collections.remove", req, 401, AuthError(authHeader), 0)
            /\ UNCHANGED <<store, now, fetched, pending>>
       ELSE /\ collections' =
                  [i \in {j \in DOMAIN collections : j # collectionId} |-> collections[i]]
            /\ resp' = Reply("collections.remove", req, 200, [success |-> TRUE], 1)
            /\ UNCHANGED <<cards, nextCardId, prices, nextPriceId, nextCollId, now, fetched, pending>>

(* DELETE /collections/<id> *)
CollDelete(authHeader, collectionId) ==
    LET req == [auth |-> authHeader, id |-> collectionId]
        userId == Val(GetUser(authHeader))
    IN IF AuthError(authHeader) # ""
       THEN /\ resp' = Failure("collections.remove", req, 401, AuthError(authHeader), 0)
            /\ UNCHANGED <<store, now, fetched, pending>>
       ELSE /\ collections' =
                  [i \in {j \in DOMAIN collections :
                             ~(j = collectionId /\ collections[j].user_id = userId)}
                     |-> collections[i]]
            /\ resp' = Reply("collections.remove", req, 200, [success |-> TRUE], 1)
            /\ UNCHANGED <<cards, nextCardId, prices, nextPriceId, nextCollId, now, fetched, pending>>

(* A variant of the Collections handler that authenticates the caller      *)
(* before it looks at the method, OPTIONS included.                        *)
CollOtherMethodAuthFirst(method, authHeader) ==
    LET req == [method |-> method, auth |-> authHeader]
    IN /\ resp' = IF AuthError(authHeader) # ""
                  THEN Failure("collections.other", req, 401, AuthError(authHeader), 0)
                  ELSE IF method = "OPTIONS"
                  THEN Reply("collections.options", req, 200, <<>>, 0)
                  ELSE Failure("collections.other", req, 405, "Method not allowed", 0)
       /\ UNCHANGED <<store, now, fetched, pending>>

(* OPTIONS is answered by serve; any other method is authenticated and     *)
(* then reaches the default branch.                                        *)
CollOtherMethod(method, authHeader) ==
    LET req == [method |-> method, auth |-> authHeader]
    IN /\ resp' = IF method = "OPTIONS"
                  THEN Reply("collections.options", req, 200, <<>>, 0)
                  ELSE IF AuthError(authHeader) # ""
                  THEN Failure("collections.other", req, 401, AuthError(authHeader), 0)
                  ELSE Failure("collections.other", req, 405, "Method not allowed", 0)
       /\ UNCHANGED <<store, now, fetched, pending>>

----------------------------------------------------------------------------
(* The clock *)

TickSteps == {7, 8}

Tick(d) ==
    /\ now + d <= MaxNow
    /\ now' = now + d
    /\ resp' = NoRequest
    /\ UNCHANGED <<store, fetched, pending>>

----------------------------------------------------------------------------
(* The state after the migration: its seed rows, inserted at time 0. *)

SeedCards ==
    << [id |-> 1, name |-> "Dark Magician", game |-> "yugioh",
        set_name |-> Some("Legend of Blue Eyes"), card_number |-> Some("LOB-005"), updated_at |-> 0],
       [id |-> 2, name |-> "Black Lotus", game |-> "mtg",
        set_name |-> Some("Alpha"), card_number |-> Some("232"), updated_at |-> 0],
       [id |-> 3, name |-> "Blue-Eyes White Dragon", game |-> "yugioh",
        set_name |-> Some("Legend of Blue Eyes"), card_number |-> Some("LOB-001"), updated_at |-> 0] >>

SeedPrices ==
    << [id |-> 1, card_id |-> 1, condition |-> "near_mint", price |-> 4599,
        currency |-> "EUR", recorded_at |-> 0],
       [id |-> 2, card_id |-> 2, condition |-> "light_play", price |-> 850000,
        currency |-> "EUR", recorded_at |-> 0] >>

Init ==
    /\ cards = SeedCards
    /\ nextCardId = Len(SeedCards) + 1
    /\ prices = SeedPrices
    /\ nextPriceId = Len(SeedPrices) + 1
    /\ collections = <<>>
    /\ nextCollId = 1
    /\ now = 0
    /\ resp = NoRequest
    /\ fetched = [c \in {} |-> <<>>]
    /\ pending = {}

----------------------------------------------------------------------------
(* Latest prices of a card: prices are added to card 1 as days pass, and   *)
(* its latest prices are read.                                             *)

LatestPosts ==
    {[card_id |-> Some(1), condition |-> Some(k), price |-> Some(p), currency |-> Absent] :
        k \in {"near_mint", "mint"}, p \in {100000, 110000}}

NextLatest ==
    \/ \E d \in TickSteps : Tick(d)
    \/ \E b \in LatestPosts :
          /\ nextPriceId <= Len(SeedPrices) + MaxPriceInserts
          /\ PricePost(b.card_id, b.condition, b.price, b.currency)
    \/ \E c \in {Absent, Some(1), Some(9)} : PriceGetLatest(c)

SpecLatest == Init /\ [][NextLatest]_vars

----------------------------------------------------------------------------
(* C1.  The latest prices returned for a card hold exactly one row per     *)
(* condition that the card's price rows have, each a row of that card, and *)
(* no row of the same condition is newer than the one returned.            *)
C1_LatestOnePerCondition ==
    (resp.op = "prices.latest" /\ resp.status = 200) =>
        LET rows == {r \in PriceRows : r.card_id = Val(resp.req.card_id)}
            body == resp.body
        IN /\ \A i \in 1..Len(body) : body[i] \in rows
           /\ \A k \in {r.condition : r \in rows} :
                 Cardinality({i \in 1..Len(body) : body[i].condition = k}) = 1
           /\ \A i \in 1..Len(body) : \A r \in rows :
                 r.condition = body[i].condition => body[i].recorded_at >= r.recorded_at

(* The latest prices of a card that has two conditions, one of them with   *)
(* rows recorded at different times, have been returned.                   *)
C1_Witness ==
    /\ resp.op = "prices.latest"
    /\ resp.status = 200
    /\ Len(resp.body) = 2
    /\ \E r, q \in PriceRows :
          /\ r.card_id = Val(resp.req.card_id)
          /\ q.card_id = r.card_id
          /\ q.condition = r.condition
          /\ q.recorded_at < r.recorded_at

----------------------------------------------------------------------------
(* Top gainers: on the days after the migration prices are added (a price  *)
(* of 0.004 is stored as 0.00), and the top gainers are read.              *)

GainerPosts ==
    {[card_id |-> Some(1), condition |-> Some("near_mint"), price |-> Some(4), currency |-> Absent],
     [card_id |-> Some(1), condition |-> Some("near_mint"), price |-> Some(91980), currency |-> Absent],
     [card_id |-> Some(2), condition |-> Some("light_play"), price |-> Some(9350000), currency |-> Absent],
     [card_id |-> Some(1), condition |-> Some("mint"), price |-> Some(100000), currency |-> Absent],
     [card_id |-> Some(1), condition |-> Some("mint"), price |-> Some(110000), currency |-> Absent]}

GameParams == {Absent, Some("yugioh"), Some("chess")}
LimitParams == {Absent, Some(0 - 1), Some(0), Some(1), Some(51)}

NextGainers ==
    \/ \E d \in TickSteps : Tick(d)
    \/ \E b \in GainerPosts :
          /\ now > 0
          /\ nextPriceId <= Len(SeedPrices) + MaxPriceInserts
          /\ PricePost(b.card_id, b.condition, b.price, b.currency)
    \/ \E g \in GameParams, l \in LimitParams :
          /\ g = Absent \/ l = Absent
          /\ PriceGetTopGainers(g, l)

SpecGainers == Init /\ [][NextGainers]_vars

(* The (card, condition) keys of the price rows a top-gainers request for  *)
(* game reads, and whether a key has a row in each of the two windows.     *)
KeysOfGame(game) ==
    {<<r.card_id, r.condition>> : r \in {q \in PriceRows :
        IsSome(game) => cards[q.card_id].game = Val(game)}}
RowsOfKey(key) == {r \in PriceRows : r.card_id = key[1] /\ r.condition = key[2]}
HasCurrent(key) ==
    \E r \in RowsOfKey(key) : r.recorded_at >= now - CurrentWindowDays /\ r.recorded_at <= now
HasPrevious(key) ==
    \E r \in RowsOfKey(key) :
        r.recorded_at >= now - PreviousWindowDays /\ r.recorded_at < now - CurrentWindowDays

(* C3.  A key without a row of the last 7 days, or without a row of the 7  *)
(* days before them, is not among the top gainers returned, and every key  *)
(* with both is among the gainers that are ranked.                         *)
C3_KeysWithBothWindowsRanked ==
    (resp.op = "prices.topGainers" /\ resp.status = 200) =>
        \A key \in KeysOfGame(resp.req.game) :
            IF HasCurrent(key) /\ HasPrevious(key)
            THEN key \in Range(resp.ranked)
            ELSE key \notin Range(SubSeq(resp.ranked, 1, Len(resp.body)))

(* C4.  The top gainers returned are at most the limit asked for and at    *)
(* most 50, and a limit above 50 is answered with an error.                *)
C4_ResultWithinLimit ==
    resp.op = "prices.topGainers" =>
        LET limit == ParseIntParam(resp.req.limit, GainersDefaultLimit)
        IN IF limit > GainersMaxLimit
           THEN resp.status # 200 /\ resp.error = "Limit cannot exceed 50"
           ELSE resp.status = 200 =>
                   Len(resp.body) <= limit /\ Len(resp.body) <= GainersMaxLimit

----------------------------------------------------------------------------
(* Price history: prices are added and re-dated as days pass, and the      *)
(* history of a card and condition is read.                                *)

HistoryPosts ==
    {[card_id |-> Some(1), condition |-> Some("near_mint"), price |-> Some(110000),
      currency |-> Absent]}

HistoryUpdates ==
    {[price |-> Absent, recorded_at |-> Some(now + 1)],
     [price |-> Absent, recorded_at |-> Some(now - (HistoryDefaultDays + 1))]}

DaysParams == {Absent, Some(7), Some(365), Some(366)}

NextHistory ==
    \/ \E d \in TickSteps : Tick(d)
    \/ \E b \in HistoryPosts :
          /\ nextPriceId <= Len(SeedPrices) + MaxPriceInserts
          /\ PricePost(b.card_id, b.condition, b.price, b.currency)
    \/ \E u \in HistoryUpdates : PricePut(1, u)
    \/ \E c \in {Absent, Some(1)}, k \in {Absent, Some("near_mint"), Some("poor")},
          d \in DaysParams : PriceGetHistory(c, k, d)

SpecHistory == Init /\ [][NextHistory]_vars

(* C7.  A history request with a day count above 365, or with a condition  *)
(* outside the six valid ones, is answered with a validation error and     *)
(* issues no store call; a request without a day count is served the rows  *)
(* of the last 30 days.                                                    *)
C7_HistoryRejectsBadWindow ==
    resp.op = "prices.history" =>
        LET badDays == IsSome(resp.req.days) /\ Val(resp.req.days) > 365
            badCondition == IsSome(resp.req.condition)
                            /\ Val(resp.req.condition) \notin validConditions
        IN /\ (badDays \/ badCondition) =>
                 /\ resp.status # 200
                 /\ resp.calls = 0
                 /\ resp.error \in {"Cannot fetch price history for more than 365 days",
                                    "Invalid card condition",
                                    "card_id and condition are required"}
           /\ (~IsSome(resp.req.days) /\ resp.status = 200) =>
                 Range(resp.body.prices) =
                    {HistoryItem(r) : r \in {q \in PriceRows :
                        /\ q.card_id = Val(resp.req.card_id)
                        /\ q.condition = Val(resp.req.condition)
                        /\ q.recorded_at >= now - 30}}

(* A history request for 366 days, for a card and condition that have     *)
(* rows, has been rejected.                                                *)
C7_Witness ==
    /\ resp.op = "prices.history"
    /\ resp.req.days = Some(366)
    /\ resp.status = 500
    /\ resp.calls = 0
    /\ \E q \in PriceRows :
          q.card_id = Val(resp.req.card_id) /\ q.condition = Val(resp.req.condition)

(* C8.  The prices of an accepted history request are sorted ascending on  *)
(* recorded_at, are rows of the card and condition asked for, and lie      *)
(* within [now - days, now].                                               *)
C8_HistoryWithinWindow ==
    (resp.op = "prices.history" /\ resp.status = 200) =>
        LET days == ParseIntParam(resp.req.days, HistoryDefaultDays)
            items == resp.body.prices
        IN /\ \A i \in 1..Len(items) - 1 : items[i].recorded_at <= items[i + 1].recorded_at
           /\ \A i \in 1..Len(items) :
                 /\ \E r \in PriceRows : /\ r.card_id = Val(resp.req.card_id)
                                         /\ r.condition = Val(resp.req.condition)
                                         /\ HistoryItem(r) = items[i]
                 /\ items[i].recorded_at >= now - days
                 /\ items[i].recorded_at <= now

----------------------------------------------------------------------------
(* The card catalogue: cards are read, created, updated and deleted as     *)
(* days pass.                                                              *)

CardPosts ==
    {[name |-> Absent, game |-> Some("yugioh"), set_name |-> Absent, card_number |-> Absent],
     [name |-> Some("   "), game |-> Some("yugioh"), set_name |-> Absent, card_number |-> Absent],
     [name |-> Some(" Kuriboh "), game |-> Some("chess"), set_name |-> Absent, card_number |-> Absent],
     [name |-> Some(" Kuriboh "), game |-> Some("yugioh"), set_name |-> Absent, card_number |-> Absent],
     [name |-> Some("Dark Magician"), game |-> Some("yugioh"),
      set_name |-> Some("Legend of Blue Eyes"), card_number |-> Some("LOB-005")]}

CardUpdates ==
    {[name |-> Some("Dark Magician Girl"), game |-> Absent],
     [name |-> Absent, game |-> Some("chess")],
     [name |-> Absent, game |-> Absent]}

NextCards ==
    \/ \E d \in TickSteps : Tick(d)
    \/ \E g \in {Absent, Some("mtg"), Some("chess")}, l \in {Absent, Some(101)} : CardGetList(g, l)
    \/ \E c \in {1, 2, 9} : CardGet(c)
    \/ \E b \in CardPosts :
          /\ nextCardId <= Len(SeedCards) + MaxCardInserts
          /\ CardPost(b)
    \/ \E c \in {1, 9}, u \in CardUpdates : CardPut(c, u)
    \/ \E c \in {1, 2, 9} : CardDelete(c)
    \/ \E m \in {"OPTIONS", "PATCH"} : CardOtherMethod(m)

SpecCards == Init /\ [][NextCards]_vars

(* C6.  A request to update, delete or fetch a card whose id is not in the *)
(* store is answered 404 with the error "Card not found", and the card     *)
(* table is as it was.                                                     *)
C6_MissingCardIsNotFound ==
    [][(resp'.op \in {"cards.update", "cards.delete", "cards.get"}
        /\ resp'.req.id \notin DOMAIN cards)
       => (resp'.status = 404 /\ resp'.error = "Card not found" /\ cards' = cards)]_vars

(* An update of a card that is not in the store has been answered. *)
C6_Witness ==
    /\ resp.op = "cards.update"
    /\ resp.req.id \notin DOMAIN cards
    /\ resp.status = 404

(* C9.  A successful fetch of a card returns the row the last fetch of     *)
(* that card returned, when no update or delete of the card came between;  *)
(* and a GET request leaves every table as it was.                         *)
C9_FetchIsRepeatable ==
    [][/\ (resp'.op = "cards.get" /\ resp'.status = 200 /\ resp'.req.id \in DOMAIN fetched)
            => resp'.body = fetched[resp'.req.id].body
       /\ resp'.op \in {"cards.get", "cards.list"} => store' = store]_vars

(* A card has been fetched a second time since it was last written, on a  *)
(* later day, after another card was updated.                              *)
C9_Witness ==
    /\ resp.op = "cards.get"
    /\ resp.status = 200
    /\ fetched[resp.req.id].again
    /\ \E c \in DOMAIN cards : c # resp.req.id /\ cards[c].updated_at > 0

----------------------------------------------------------------------------
(* Collection statistics: two users add, change and remove entries while   *)
(* prices are added and days pass.                                         *)

StatsPricePosts ==
    {[card_id |-> Some(1), condition |-> Some("near_mint"), price |-> Some(10000), currency |-> Absent],
     [card_id |-> Some(3), condition |-> Some("mint"), price |-> Some(50000), currency |-> Absent]}

StatsCollPosts ==
    {[card_id |-> Some(1), condition |-> Some("near_mint"), quantity |-> Some(2)],
     [card_id |-> Some(3), condition |-> Some("mint"), quantity |-> Some(1)],
     [card_id |-> Some(1), condition |-> Some("mint"), quantity |-> Absent]}

StatsCollUpdates == {[quantity |-> Some(3), condition |-> Absent]}

NextStats ==
    \/ Tick(8)
    \/ \E b \in StatsPricePosts :
          /\ nextPriceId <= Len(SeedPrices) + MaxPriceInserts
          /\ PricePost(b.card_id, b.condition, b.price, b.currency)
    \/ \E a \in {Some("u1"), Some("u2")}, b \in StatsCollPosts :
          /\ nextCollId <= MaxCollInserts
          /\ a = Some("u2") => b.quantity = Some(2)
          /\ CollPost(a, b.card_id, b.condition, b.quantity)
    \/ \E u \in StatsCollUpdates : CollPut(Some("u1"), 1, u)
    \/ CollDelete(Some("u1"), 1)
    \/ \E a \in {Some("u1"), Some("u2")} : CollGetStats(a)

SpecStats == Init /\ [][NextStats]_vars

(* The price rows of an entry's (card, condition) key with the newest      *)
(* recorded_at.                                                            *)
LatestRowsOfKey(e) ==
    LET rows == {p \in PriceRows : p.card_id = e.card_id /\ p.condition = e.condition}
    IN {p \in rows : \A q \in rows : q.recorded_at <= p.recorded_at}

(* The sums of latest price x quantity over a set of entries; an entry     *)
(* whose key has no price adds nothing, and price rows of one key with the *)
(* same newest date may each be taken as the latest.                       *)
RECURSIVE ValuesOf(_)
ValuesOf(entries) ==
    IF entries = {} THEN {0}
    ELSE LET e == CHOOSE x \in entries : TRUE
             latest == IF LatestRowsOfKey(e) = {} THEN {0}
                       ELSE {p.price : p \in LatestRowsOfKey(e)}
         IN {v * e.quantity + t : v \in latest, t \in ValuesOf(entries \ {e})}

(* C2.  The totalValue answered by GET /collections/stats is the sum, over *)
(* the entries of the calling user, of the latest price of the entry's     *)
(* (card, condition) key times the entry's quantity.                       *)
C2_TotalValueIsSumOfLatest ==
    (resp.op = "collections.stats" /\ resp.status = 200)
        => resp.body.totalValue \in ValuesOf(EntriesOf(Val(GetUser(resp.req.auth))))

----------------------------------------------------------------------------
(* The three handlers together, on one day: requests that pass and         *)
(* requests that each validation rule rejects.                             *)

AuthHeaders == {Absent, Some("bad"), Some("u1")}

PricePosts ==
    {[card_id |-> Some(1), condition |-> Some("mint"), price |-> Some(0), currency |-> Absent],
     [card_id |-> Some(1), condition |-> Some("mint"), price |-> Some(0 - 1000), currency |-> Absent],
     [card_id |-> Some(1), condition |-> Some("mint"), price |-> Some(10000), currency |-> Absent],
     [card_id |-> Some(1), condition |-> Some("mint"), price |-> Some(10000), currency |-> Some("BTC")],
     [card_id |-> Some(1), condition |-> Some("poor"), price |-> Some(10000), currency |-> Absent],
     [card_id |-> Absent, condition |-> Some("mint"), price |-> Some(0), currency |-> Absent],
     [card_id |-> Some(9), condition |-> Some("mint"), price |-> Absent, currency |-> Absent]}

PriceUpdates ==
    {[price |-> Some(0), recorded_at |-> Absent],
     [price |-> Some(5000), recorded_at |-> Absent]}

CollPosts ==
    {[card_id |-> Some(1), condition |-> Some("mint"), quantity |-> Some(0)],
     [card_id |-> Some(1), condition |-> Some("mint"), quantity |-> Some(0 - 1)],
     [card_id |-> Some(1), condition |-> Some("mint"), quantity |-> Some(2)],
     [card_id |-> Some(1), condition |-> Some("poor"), quantity |-> Some(2)],
     [card_id |-> Absent, condition |-> Some("mint"), quantity |-> Some(0)],
     [card_id |-> Some(9), condition |-> Some("mint"), quantity |-> Absent]}

CollUpdates ==
    {[quantity |-> Some(0), condition |-> Absent],
     [quantity |-> Absent, condition |-> Some("poor")],
     [quantity |-> Some(3), condition |-> Absent]}

Next ==
    \/ \E g \in {Absent, Some("chess")}, l \in {Absent, Some(51)} :
          /\ IsSome(g) => ~IsSome(l)
          /\ PriceGetTopGainers(g, l)
    \/ \E c \in {Absent, Some(1)}, k \in {Some("mint"), Some("poor")}, d \in {Absent, Some(366)} :
          /\ (~IsSome(c) \/ k = Some("poor")) => ~IsSome(d)
          /\ PriceGetHistory(c, k, d)
    \/ \E c \in {Absent, Some(1)} : PriceGetLatest(c)
    \/ \E b \in PricePosts :
          /\ nextPriceId <= Len(SeedPrices) + MaxPriceInserts
          /\ PricePost(b.card_id, b.condition, b.price, b.currency)
    \/ \E i \in {1, 9}, u \in PriceUpdates :
          /\ i = 9 => u.price = Some(5000)
          /\ PricePut(i, u)
    \/ PriceDelete(2)
    \/ \E m \in {"OPTIONS", "PATCH"} : PriceOtherMethod(m)
    \/ \E g \in {Absent, Some("chess")}, l \in {Absent, Some(101)} :
          /\ IsSome(g) => ~IsSome(l)
          /\ CardGetList(g, l)
    \/ \E c \in {1, 9} : CardGet(c)
    \/ \E b \in CardPosts :
          /\ nextCardId <= Len(SeedCards) + MaxCardInserts
          /\ CardPost(b)
    \/ \E u \in CardUpdates : CardPut(9, u)
    \/ CardDelete(2)
    \/ \E m \in {"OPTIONS", "PATCH"} : CardOtherMethod(m)
    \/ \E a \in AuthHeaders : CollGetStats(a)
    \/ \E a \in AuthHeaders : CollGetList(a)
    \/ \E a \in AuthHeaders, b \in CollPosts :
          /\ nextCollId <= MaxCollInserts
          /\ ~IsSome(GetUser(a)) => b.quantity = Some(2)
          /\ CollPost(a, b.card_id, b.condition, b.quantity)
    \/ \E a \in {Absent, Some("u1")}, u \in CollUpdates :
          /\ ~IsSome(a) => u.quantity = Some(3)
          /\ CollPut(a, 1, u)
    \/ \E a \in {Absent, Some("u1")} : CollDelete(a, 1)
    \/ \E m \in {"OPTIONS", "PATCH"}, a \in {Absent, Some("u1")} :
          /\ m = "OPTIONS" => ~IsSome(a)
          /\ CollOtherMethod(m, a)

Spec == Init /\ [][Next]_vars

(* The two additions with a guard on a number: prices are added to the    *)
(* store and entries to the collections of the callers, and an entry is    *)
(* removed.                                                                *)
NextGuards ==
    \/ \E b \in PricePosts :
          /\ nextPriceId <= Len(SeedPrices) + MaxPriceInserts
          /\ PricePost(b.card_id, b.condition, b.price, b.currency)
    \/ \E a \in AuthHeaders, b \in CollPosts :
          /\ nextCollId <= MaxCollInserts
          /\ CollPost(a, b.card_id, b.condition, b.quantity)
    \/ CollDelete(Some("u1"), 1)

SpecGuards == Init /\ [][NextGuards]_vars

(* C5.  A request to add a price with price <= 0, and a request to add a   *)
(* collection entry with quantity <= 0, fails with an error raised before  *)
(* any store call (for a caller who is a user, the message of a validation *)
(* rule of the service), and inserts no record.                            *)
C5_NonPositiveIsRejected ==
    [][/\ (/\ resp'.op = "prices.add"
           /\ IsSome(resp'.req.price)
           /\ Val(resp'.req.price) <= 0)
          => /\ resp'.error \in {"Card ID and condition are required",
                                 "Price must be greater than 0"}
             /\ resp'.calls = 0
             /\ prices' = prices
       /\ (/\ resp'.op = "collections.add"
           /\ IsSome(resp'.req.quantity)
           /\ Val(resp'.req.quantity) <= 0)
          => /\ resp'.error # ""
             /\ IsSome(GetUser(resp'.req.auth))
                   => resp'.error \in {"User ID and Card ID are required",
                                       "Quantity must be greater than 0"}
             /\ resp'.calls = 0
             /\ collections' = collections]_vars

(* A user with an entry in the collection has been refused an entry of     *)
(* quantity -1 for a card that exists.                                     *)
C5_Witness ==
    /\ resp.op = "collections.add"
    /\ resp.req.quantity = Some(0 - 1)
    /\ resp.req.card_id = Some(1)
    /\ resp.error = "Quantity must be greater than 0"
    /\ \E i \in DOMAIN collections : collections[i].user_id = Val(GetUser(resp.req.auth))

(* C10.  A request refused before any store call, other than for its       *)
(* caller (401) or its method (405), is answered 400; and status 500 is    *)
(* answered only with an error of the store.                               *)
C10_ValidationAnswers400 ==
    /\ (resp.error # "" /\ resp.calls = 0 /\ resp.status \notin {401, 405}) => resp.status = 400
    /\ resp.status = 500 => resp.error \in StoreErrors

----------------------------------------------------------------------------
(* Collections: two users, and callers who are no user, add, change,       *)
(* remove and read entries.                                                *)

Callers == {Absent, Some("bad"), Some("u1"), Some("u2")}

OwnerPosts ==
    {[card_id |-> Some(1), condition |-> Some("near_mint"), quantity |-> Some(2)],
     [card_id |-> Some(1), condition |-> Some("mint"), quantity |-> Absent],
     [card_id |-> Some(2), condition |-> Some("light_play"), quantity |-> Some(1)]}

OwnerUpdates ==
    {[quantity |-> Some(3), condition |-> Absent],
     [quantity |-> Some(0), condition |-> Absent],
     [quantity |-> Absent, condition |-> Some("mint")]}

Writers == {Some("bad"), Some("u1"), Some("u2")}

NextCollections ==
    \/ \E a \in Writers, b \in OwnerPosts :
          /\ nextCollId <= MaxCollInserts
          /\ CollPost(a, b.card_id, b.condition, b.quantity)
    \/ \E a \in Writers, i \in {1, 2}, u \in OwnerUpdates : CollPut(a, i, u)
    \/ \E a \in Writers, i \in {1, 2} : CollDelete(a, i)
    \/ \E a \in Callers : CollGetList(a)
    \/ \E a \in Callers : CollGetStats(a)
    \/ \E m \in {"OPTIONS", "PATCH"}, a \in Callers : CollOtherMethod(m, a)

SpecCollections == Init /\ [][NextCollections]_vars

(* C11.  A GET, POST, PUT or DELETE of Collections without authorization   *)
(* header, or with a token that resolves to no user, is answered 401, no   *)
(* store call is made for it and the store is as it was.                   *)
C11_NoUserIsUnauthorized ==
    [][(/\ resp'.op \in {"collections.list", "collections.stats", "collections.add",
                         "collections.update", "collections.remove"}
        /\ resp'.req.auth \notin {Some(u) : u \in Users})
       => (resp'.status = 401 /\ resp'.calls = 0 /\ store' = store)]_vars

(* An update of an entry that exists, sent with a token of no user, has    *)
(* been answered.                                                          *)
C11_Witness ==
    /\ resp.op = "collections.update"
    /\ resp.req.auth = Some("bad")
    /\ resp.req.id \in DOMAIN collections
    /\ resp.status = 401

----------------------------------------------------------------------------
(* Methods: requests with OPTIONS and with methods no handler serves reach *)
(* the three functions while rows are added to the three tables.           *)

Methods == {"OPTIONS", "PATCH", "HEAD"}

MethodCardPosts ==
    {[name |-> Some(" Kuriboh "), game |-> Some("yugioh"), set_name |-> Absent, card_number |-> Absent]}

MethodPricePosts ==
    {[card_id |-> Some(1), condition |-> Some("mint"), price |-> Some(100000), currency |-> Absent]}

NextMethods ==
    \/ \E m \in Methods : CardOtherMethod(m)
    \/ \E m \in Methods : PriceOtherMethod(m)
    \/ \E m \in Methods, a \in Callers : CollOtherMethod(m, a)
    \/ \E b \in MethodCardPosts :
          /\ nextCardId <= Len(SeedCards) + MaxCardInserts
          /\ CardPost(b)
    \/ \E b \in MethodPricePosts :
          /\ nextPriceId <= Len(SeedPrices) + MaxPriceInserts
          /\ PricePost(b.card_id, b.condition, b.price, b.currency)
    \/ \E b \in OwnerPosts :
          /\ nextCollId <= MaxCollInserts
          /\ CollPost(Some("u1"), b.card_id, b.condition, b.quantity)

SpecMethods == Init /\ [][NextMethods]_vars

(* C12.  A request with a method other than GET, POST, PUT, DELETE and     *)
(* OPTIONS makes no store call and leaves the store as it was; Cards and   *)
(* Prices answer it 405, and Collections answers it 405 when the caller is *)
(* a user and 401 when not.  OPTIONS is answered 200 with an empty body,   *)
(* whoever calls.                                                          *)
C12_OtherMethodsRefused ==
    [][resp'.op \in {"cards.other", "prices.other", "collections.other",
                     "cards.options", "prices.options", "collections.options"}
       => /\ resp'.calls = 0
          /\ store' = store
          /\ IF resp'.req.method = "OPTIONS"
             THEN resp'.status = 200 /\ resp'.body = <<>> /\ resp'.error = ""
             ELSE resp'.status =
                     IF resp'.op = "collections.other"
                        /\ resp'.req.auth \notin {Some(u) : u \in Users}
                     THEN 401 ELSE 405]_vars

(* C12 as stated: every such request is answered 405. *)
C12_OtherMethodsAlways405 ==
    resp.op \in {"cards.other", "prices.other", "collections.other"} => resp.status = 405

(* Collections has answered an OPTIONS request that carried no             *)
(* authorization header, with entries in the store.                        *)
C12_Witness ==
    /\ resp.op = "collections.options"
    /\ resp.req.auth = Absent
    /\ resp.status = 200
    /\ collections # <<>>

(* C13.  A Collections request of a user leaves every entry of every other *)
(* user as it was, whatever entry id the request names; the list answered  *)
(* to a user holds the user's entries and no others; and the stats         *)
(* answered to a user count the user's entries, are empty when the user    *)
(* has none, and name as rarest a card of an entry of the user.            *)
C13_OtherUsersEntriesUntouched ==
    [][(/\ resp'.op \in {"collections.list", "collections.stats", "collections.add",
                         "collections.update", "collections.remove", "collections.other"}
        /\ resp'.req.auth \in {Some(u) : u \in Users})
       => LET caller == Val(resp'.req.auth)
              own == {e \in CollRows : e.user_id = caller}
          IN /\ \A i \in DOMAIN collections :
                   collections[i].user_id # caller
                      => (i \in DOMAIN collections' /\ collections'[i] = collections[i])
             /\ (resp'.op = "collections.list" /\ resp'.status = 200)
                   => {r.id : r \in Range(resp'.body)} = {e.id : e \in own}
             /\ (resp'.op = "collections.stats" /\ resp'.status = 200)
                   => /\ resp'.body.totalCards = Cardinality(own)
                      /\ own = {} => (resp'.body.totalValue = 0 /\ resp'.body.rarest = Absent)
                      /\ IsSome(resp'.body.rarest)
                            => \E e \in own :
                                  Val(resp'.body.rarest) = Label(cards[e.card_id])]_vars

(* A user has asked to delete an entry of another user and was answered,   *)
(* and the entry is in the store.                                          *)
C13_Witness ==
    /\ resp.op = "collections.remove"
    /\ resp.status = 200
    /\ resp.req.auth = Some("u1")
    /\ resp.req.id \in DOMAIN collections
    /\ collections[resp.req.id].user_id = "u2"

(* C14.  When a user adds an entry for a card and condition the user       *)
(* already holds, with a request that passes the service's guards, the     *)
(* request succeeds, no row is added, and the quantity of the entry held   *)
(* grows by the quantity added.                                            *)
C14_AddAccumulates ==
    [][(/\ resp'.op = "collections.add"
        /\ resp'.req.auth \in {Some(u) : u \in Users}
        /\ CollectionService_addCardToCollection(resp'.req.card_id, resp'.req.condition,
                                                 resp'.req.quantity) = "")
       => \A e \in CollRows :
             (/\ e.user_id = Val(resp'.req.auth)
              /\ e.card_id = Val(resp'.req.card_id)
              /\ e.condition = Val(resp'.req.condition))
             => /\ resp'.status \in {200, 201}
                /\ DOMAIN collections' = DOMAIN collections
                /\ collections'[e.id].quantity = e.quantity + OrElse(resp'.req.quantity, 1)]_vars

(* C15.  No two collection entries have the same user, card and condition, *)
(* and every entry has a quantity above 0.                                 *)
C15_EntriesUniqueAndPositive ==
    \A e \in CollRows :
        /\ e.quantity > 0
        /\ \A f \in CollRows :
              (e.user_id = f.user_id /\ e.card_id = f.card_id /\ e.condition = f.condition)
                 => e.id = f.id

(* A user holding a card in two conditions has asked to change one entry's *)
(* condition to the other's and was refused by the store.                  *)
C15_Witness ==
    /\ resp.op = "collections.update"
    /\ IsSome(resp.req.updates.condition)
    /\ resp.error = "violates unique constraint"
    /\ \E e \in CollRows : e.id # resp.req.id /\ e.condition = Val(resp.req.updates.condition)

(* C16.  A POST /prices answered 201 adds one row, for the card and        *)
(* condition of the request, and leaves every row the table held as it     *)
(* was.                                                                    *)
C16_AddPriceAppends ==
    [][(resp'.op = "prices.add" /\ resp'.status = 201)
       => /\ \A i \in DOMAIN prices : i \in DOMAIN prices' /\ prices'[i] = prices[i]
          /\ Cardinality(DOMAIN prices') = Cardinality(DOMAIN prices) + 1
          /\ \A n \in DOMAIN prices' \ DOMAIN prices :
                /\ prices'[n].card_id = Val(resp'.req.card_id)
                /\ prices'[n].condition = Val(resp'.req.condition)]_vars

(* A price has been added for a card and condition that has an earlier     *)
(* price.                                                                  *)
C16_Witness ==
    /\ resp.op = "prices.add"
    /\ resp.status = 201
    /\ \E p \in PriceRows :
          /\ p.id # resp.body.id
          /\ p.card_id = resp.body.card_id
          /\ p.condition = resp.body.condition
          /\ p.recorded_at < resp.body.recorded_at

----------------------------------------------------------------------------
(* References to cards: cards are created, changed and deleted while       *)
(* prices and collection entries are added for cards that exist and for a  *)
(* card that does not, and are changed and removed.                        *)

CascadePricePosts ==
    {[card_id |-> Some(c), condition |-> Some("mint"), price |-> Some(10000), currency |-> Absent] :
        c \in {1, 4, 9}}

CascadeCollPosts ==
    {[card_id |-> Some(c), condition |-> Some("mint"), quantity |-> Some(1)] : c \in {1, 9}}

NextCascade ==
    \/ \E b \in CardPosts :
          /\ nextCardId <= Len(SeedCards) + MaxCardInserts
          /\ b.game = Some("yugioh")
          /\ CardPost(b)
    \/ CardPut(1, [name |-> Some("Dark Magician Girl"), game |-> Absent])
    \/ \E c \in {1, 4, 9} : CardDelete(c)
    \/ \E b \in CascadePricePosts :
          /\ nextPriceId <= Len(SeedPrices) + MaxPriceInserts
          /\ PricePost(b.card_id, b.condition, b.price, b.currency)
    \/ PricePut(1, [price |-> Some(5000), recorded_at |-> Absent])
    \/ PriceDelete(1)
    \/ \E a \in {Some("u1"), Some("u2")}, b \in CascadeCollPosts :
          /\ nextCollId <= MaxCollInserts
          /\ CollPost(a, b.card_id, b.condition, b.quantity)
    \/ CollPut(Some("u1"), 1, [quantity |-> Some(3), condition |-> Absent])
    \/ CollDelete(Some("u2"), 2)

SpecCascade == Init /\ [][NextCascade]_vars

(* C17.  Every collection entry and every price row names a card that is   *)
(* in the store; after a DELETE of a card answered 200 no entry and no     *)
(* price row of that card is left.                                         *)
C17_ReferencesExist ==
    /\ \A e \in CollRows : e.card_id \in DOMAIN cards
    /\ \A p \in PriceRows : p.card_id \in DOMAIN cards
    /\ (resp.op = "cards.delete" /\ resp.status = 200)
          => /\ resp.req.id \notin DOMAIN cards
             /\ \A e \in CollRows : e.card_id # resp.req.id
             /\ \A p \in PriceRows : p.card_id # resp.req.id

(* Card 1 has been deleted after a price was added and after the two       *)
(* entries the store ever held were made, both for card 1.                 *)
C17_Witness ==
    /\ resp.op = "cards.delete"
    /\ resp.status = 200
    /\ resp.req.id = 1
    /\ nextCollId = 3
    /\ nextPriceId > Len(SeedPrices) + 1

(* C18.  An update or delete of a card, a price or a collection entry that *)
(* names no row of the table (for an entry: no row of the caller), and     *)
(* that no guard refuses before the store is reached, is answered 404 and  *)
(* changes nothing.                                                        *)
C18_MissingTargetIsNotFound ==
    [][LET missing ==
              \/ /\ resp'.op \in {"cards.update", "cards.delete"}
                 /\ resp'.req.id \notin DOMAIN cards
              \/ /\ resp'.op \in {"prices.update", "prices.delete"}
                 /\ resp'.req.id \notin DOMAIN prices
              \/ /\ resp'.op \in {"collections.update", "collections.remove"}
                 /\ resp'.req.auth \in {Some(u) : u \in Users}
                 /\ \/ resp'.req.id \notin DOMAIN collections
                    \/ collections[resp'.req.id].user_id # Val(resp'.req.auth)
       IN (missing /\ resp'.calls > 0) => (resp'.status = 404 /\ store' = store)]_vars

----------------------------------------------------------------------------
(* The guards of the services: each request a guard refuses, next to       *)
(* requests of the same kind that pass.                                    *)

NextRules ==
    \/ \E g \in {Absent, Some("chess")}, l \in {Absent, Some(51)} :
          /\ IsSome(g) => ~IsSome(l)
          /\ PriceGetTopGainers(g, l)
    \/ \E k \in {Some("mint"), Some("poor")}, d \in {Absent, Some(366)} :
          /\ k = Some("poor") => ~IsSome(d)
          /\ PriceGetHistory(Some(1), k, d)
    \/ \E b \in PricePosts :
          /\ nextPriceId <= Len(SeedPrices) + MaxPriceInserts
          /\ PricePost(b.card_id, b.condition, b.price, b.currency)
    \/ \E u \in PriceUpdates : PricePut(1, u)
    \/ \E g \in {Absent, Some("chess")}, l \in {Absent, Some(101)} :
          /\ IsSome(g) => ~IsSome(l)
          /\ CardGetList(g, l)
    \/ \E b \in CardPosts :
          /\ nextCardId <= Len(SeedCards) + MaxCardInserts
          /\ CardPost(b)
    \/ \E b \in CollPosts :
          /\ nextCollId <= MaxCollInserts
          /\ CollPost(Some("u1"), b.card_id, b.condition, b.quantity)

SpecRules == Init /\ [][NextRules]_vars

----------------------------------------------------------------------------
(* Card requests running side by side.  CardService.updateCard and         *)
(* deleteCard make two store calls, getCardById and then the repository's  *)
(* update or delete; each call is one step, and steps of other requests    *)
(* may come between the two.                                               *)

MaxPending == 2

(* The lowest ticket no request in flight holds. *)
FreeTicket == CHOOSE t \in 1..MaxPending : \A p \in pending : p.t # t

(* PUT /cards/<id>, first call: the service fetches the card. *)
CardPutCheck(cardId, updates) ==
    LET req == [id |-> cardId, updates |-> updates]
    IN /\ Cardinality(pending) < MaxPending
       /\ IF ~IsSome(CardRepository_getCardById(cardId))
          THEN /\ resp' = Failure("cards.update", req, 404, "Card not found", 1)
               /\ UNCHANGED pending
          ELSE /\ pending' = pending \cup {[t |-> FreeTicket, op |-> "cards.update", req |-> req]}
               /\ resp' = NoRequest
       /\ UNCHANGED <<store, now, fetched>>

(* PUT /cards/<id>, second call: the repository updates the row, and       *)
(* .single() fails when no row was updated.                                *)
CardPutWrite(p) ==
    /\ p \in pending
    /\ p.op = "cards.update"
    /\ pending' = pending \ {p}
    /\ IF p.req.id \notin DOMAIN cards
       THEN /\ resp' = Failure("cards.update", p.req, 500,
                               "JSON object requested, multiple (or no) rows returned", 2)
            /\ UNCHANGED <<store, now, fetched>>
       ELSE IF CardRowError(UpdatedCard(cards[p.req.id], p.req.updates)) # ""
       THEN /\ resp' = Failure("cards.update", p.req, 500,
                               CardRowError(UpdatedCard(cards[p.req.id], p.req.updates)), 2)
            /\ UNCHANGED <<store, now, fetched>>
       ELSE /\ cards' = [cards EXCEPT ![p.req.id] = UpdatedCard(@, p.req.updates)]
            /\ resp' = Reply("cards.update", p.req, 200,
                             UpdatedCard(cards[p.req.id], p.req.updates), 2)
            /\ fetched' = Forget(p.req.id)
            /\ UNCHANGED <<nextCardId, prices, nextPriceId, collections, nextCollId, now>>

(* DELETE /cards/<id>, first call: the service fetches the card. *)
CardDeleteCheck(cardId) ==
    LET req == [id |-> cardId]
    IN /\ Cardinality(pending) < MaxPending
       /\ IF ~IsSome(CardRepository_getCardById(cardId))
          THEN /\ resp' = Failure("cards.delete", req, 404, "Card not found", 1)
               /\ UNCHANGED pending
          ELSE /\ pending' = pending \cup {[t |-> FreeTicket, op |-> "cards.delete", req |-> req]}
               /\ resp' = NoRequest
       /\ UNCHANGED <<store, now, fetched>>

(* DELETE /cards/<id>, second call: the repository deletes the rows with   *)
(* the id, none included, and the foreign keys cascade.                    *)
CardDeleteWrite(p) ==
    /\ p \in pending
    /\ p.op = "cards.delete"
    /\ pending' = pending \ {p}
    /\ cards' = [c \in DOMAIN cards \ {p.req.id} |-> cards[c]]
    /\ prices' = [i \in {j \in DOMAIN prices : prices[j].card_id # p.req.id} |-> prices[i]]
    /\ collections' = [i \in {j \in DOMAIN collections : collections[j].card_id # p.req.id}
                         |-> collections[i]]
    /\ resp' = Reply("cards.delete", p.req, 200, [success |-> TRUE], 2)
    /\ fetched' = Forget(p.req.id)
    /\ UNCHANGED <<nextCardId, nextPriceId, nextCollId, now>>

RaceUpdates == {[name |-> Some("Dark Magician Girl"), game |-> Absent]}

NextRace ==
    \/ \E c \in {1, 2, 9}, u \in RaceUpdates : CardPutCheck(c, u)
    \/ \E p \in pending : CardPutWrite(p)
    \/ \E c \in {1, 2, 9} : CardDeleteCheck(c)
    \/ \E p \in pending : CardDeleteWrite(p)
    \/ \E c \in {1, 2} : CardGet(c)

SpecRace == Init /\ [][NextRace]_vars

(* C20.  An update or a delete of a card, run side by side with other      *)
(* updates and deletes of cards, is answered 200 for a card that is in the *)
(* store when the repository's call is made, or 404.                       *)
C20_RaceEndsFoundOrNotFound ==
    [][resp'.op \in {"cards.update", "cards.delete"}
       => \/ resp'.status = 404
          \/ resp'.status = 200 /\ resp'.req.id \in DOMAIN cards]_vars

----------------------------------------------------------------------------
(* C21.  The rarest answered by GET /collections/stats is the label of an  *)
(* entry of the calling user whose latest price, among the price rows of   *)
(* the entry's card and condition, is the highest of the user's entries,   *)
(* and it is "No cards" exactly when no entry of the user has a price.     *)
C21_RarestIsHighestPriced ==
    (resp.op = "collections.stats" /\ resp.status = 200) =>
        LET priced == {e \in EntriesOf(Val(GetUser(resp.req.auth))) : LatestRowsOfKey(e) # {}}
        IN IF priced = {}
           THEN resp.body.rarest = Absent
           ELSE \E e \in priced : \E p \in LatestRowsOfKey(e) :
                   /\ resp.body.rarest = Some(Label(cards[e.card_id]))
                   /\ \A e2 \in priced : \E p2 \in LatestRowsOfKey(e2) : p2.price <= p.price

----------------------------------------------------------------------------
(* C22.  Every top gainer returned has a current price above its previous  *)
(* price: its changePercent is above 0.                                    *)
C22_ReturnedAreGainers ==
    (resp.op = "prices.topGainers" /\ resp.status = 200) =>
        \A i \in 1..Len(resp.body) :
            /\ resp.gainers[i].currentPrice > resp.gainers[i].previousPrice
            /\ resp.gainers[i].changePercent.num > 0

----------------------------------------------------------------------------
(* C23.  For every key the top gainers computation holds, the current      *)
(* price is the price of the newest row of the key in the last 7 days, and *)
(* the previous price is the price of the newest row of the key in the 7   *)
(* days before them, also when that price is stored as 0; an older row of  *)
(* the same window never takes its place.                                  *)
C23_NewestOfEachWindowSelected ==
    (resp.op = "prices.topGainers" /\ resp.status = 200) =>
        \A i \in 1..Len(resp.selected) :
            LET item == resp.selected[i]
                current == {r \in RowsOfKey(item.key) :
                               r.recorded_at >= now - CurrentWindowDays /\ r.recorded_at <= now}
                previous == {r \in RowsOfKey(item.key) :
                                /\ r.recorded_at >= now - PreviousWindowDays
                                /\ r.recorded_at < now - CurrentWindowDays}
            IN /\ current # {} =>
                     \E r \in current : /\ \A q \in current : q.recorded_at <= r.recorded_at
                                        /\ item.currentPrice = r.price
               /\ previous # {} =>
                     \E r \in previous : /\ \A q \in previous : q.recorded_at <= r.recorded_at
                                         /\ item.previousPrice = r.price

----------------------------------------------------------------------------
(* Ranking: on the days after the migration prices of three keys are       *)
(* added, one of them stored as 0.00, and the top gainers are read with    *)
(* and without a limit.                                                    *)

RankingPosts ==
    {[card_id |-> Some(1), condition |-> Some("near_mint"), price |-> Some(91980), currency |-> Absent],
     [card_id |-> Some(2), condition |-> Some("light_play"), price |-> Some(9350000), currency |-> Absent],
     [card_id |-> Some(1), condition |-> Some("mint"), price |-> Some(4), currency |-> Absent],
     [card_id |-> Some(1), condition |-> Some("mint"), price |-> Some(100000), currency |-> Absent]}

NextRanking ==
    \/ Tick(8)
    \/ \E b \in RankingPosts :
          /\ now > 0
          /\ nextPriceId <= Len(SeedPrices) + MaxPriceInserts
          /\ PricePost(b.card_id, b.condition, b.price, b.currency)
    \/ \E l \in {Absent, Some(0 - 1), Some(1)} : PriceGetTopGainers(Absent, l)

SpecRanking == Init /\ [][NextRanking]_vars

(* C24.  The top gainers returned are in the order of their changePercent, *)
(* the highest first, where changePercent is (current - previous) /        *)
(* previous x 100; with a limit L of 0 or more they are the L keys of the  *)
(* highest changePercent among the keys with both prices, or all of those  *)
(* keys when there are fewer than L.                                       *)
C24_RankedByChangePercent ==
    (resp.op = "prices.topGainers" /\ resp.status = 200) =>
        LET limit == ParseIntParam(resp.req.limit, GainersDefaultLimit)
            n == Len(resp.body)
            qualifying == {i \in 1..Len(resp.selected) :
                              /\ resp.selected[i].currentPrice > 0
                              /\ resp.selected[i].previousPrice > 0}
            Above(a, b) == a.num * b.den >= b.num * a.den
        IN /\ n <= Len(resp.gainers)
           /\ \A i \in 1..n :
                 /\ resp.body[i].card_id = resp.gainers[i].key[1]
                 /\ resp.body[i].price = resp.gainers[i].currentPrice
                 /\ resp.gainers[i].changePercent.den > 0
                 /\ resp.gainers[i].changePercent.num * resp.gainers[i].previousPrice
                       = 100 * (resp.gainers[i].currentPrice - resp.gainers[i].previousPrice)
                            * resp.gainers[i].changePercent.den
           /\ \A i \in 1..n - 1 :
                 Above(resp.gainers[i].changePercent, resp.gainers[i + 1].changePercent)
           /\ {resp.gainers[i].key : i \in 1..Len(resp.gainers)}
                 = {resp.selected[i].key : i \in qualifying}
           /\ Len(resp.gainers) = Cardinality(qualifying)
           /\ limit >= 0 =>
                 /\ n = IF limit < Cardinality(qualifying) THEN limit ELSE Cardinality(qualifying)
                 /\ \A i \in 1..n, j \in n + 1..Len(resp.gainers) :
                       Above(resp.gainers[i].changePercent, resp.gainers[j].changePercent)

(* Two keys gained 100 and 10 per cent, and a limit of 1 kept the first. *)
C24_Witness ==
    /\ resp.op = "prices.topGainers"
    /\ resp.status = 200
    /\ resp.req.limit = Some(1)
    /\ Len(resp.body) = 1
    /\ Len(resp.gainers) = 2
    /\ resp.gainers[1].changePercent = [num |-> 100, den |-> 1]
    /\ resp.gainers[2].changePercent = [num |-> 10, den |-> 1]
    /\ resp.gainers[2].currentPrice = 935000
    /\ resp.gainers[2].previousPrice = 850000

----------------------------------------------------------------------------
(* C28.  The top gainers computation never divides by 0: a key whose       *)
(* previous price is 0 is removed before changePercent is computed, and    *)
(* every changePercent computed is a finite number.                        *)
C28_NoDivisionByZero ==
    (resp.op = "prices.topGainers" /\ resp.status = 200) =>
        /\ \A i \in 1..Len(resp.gainers) :
              /\ resp.gainers[i].previousPrice > 0
              /\ resp.gainers[i].changePercent.den > 0
        /\ \A i \in 1..Len(resp.selected) :
              resp.selected[i].previousPrice = 0 => resp.selected[i].key \notin Range(resp.ranked)

(* A key with a current price, whose row of the previous window is stored  *)
(* as 0.00, was read and left out.                                         *)
C28_Witness ==
    /\ resp.op = "prices.topGainers"
    /\ resp.status = 200
    /\ \E i \in 1..Len(resp.selected) :
          /\ resp.selected[i].currentPrice > 0
          /\ resp.selected[i].previousPrice = 0
          /\ resp.selected[i].key \notin Range(resp.ranked)
          /\ \E r \in RowsOfKey(resp.selected[i].key) :
                /\ r.price = 0
                /\ r.recorded_at >= now - PreviousWindowDays
                /\ r.recorded_at < now - CurrentWindowDays

----------------------------------------------------------------------------
(* C27.  Every top gainer returned carries the condition of the key whose  *)
(* prices produced it.                                                     *)
C27_ResultCarriesKeyCondition ==
    (resp.op = "prices.topGainers" /\ resp.status = 200) =>
        \A i \in 1..Len(resp.body) :
            /\ resp.body[i].card_id = resp.gainers[i].key[1]
            /\ resp.body[i].condition = resp.gainers[i].key[2]

----------------------------------------------------------------------------
(* C25.  When rows of one condition share the newest recorded_at, the      *)
(* latest prices returned hold, for that condition, the one the store      *)
(* returned first among them.                                              *)
C25_FirstOfTiedNewestKept ==
    (resp.op = "prices.latest" /\ resp.status = 200) =>
        \A i \in 1..Len(resp.body) :
            LET tied == {j \in 1..Len(resp.data) :
                            /\ resp.data[j].condition = resp.body[i].condition
                            /\ \A k \in 1..Len(resp.data) :
                                  resp.data[k].condition = resp.body[i].condition
                                     => resp.data[k].recorded_at <= resp.data[j].recorded_at}
            IN \E j \in tied : /\ resp.body[i] = resp.data[j]
                               /\ \A k \in tied : j <= k

(* C25 as first stated: when rows of one condition share the newest        *)
(* recorded_at, the latest prices returned hold the one the store returned *)
(* last among them.                                                        *)
C25_LastOfTiedNewestKept ==
    (resp.op = "prices.latest" /\ resp.status = 200) =>
        \A i \in 1..Len(resp.body) :
            LET tied == {j \in 1..Len(resp.data) :
                            /\ resp.data[j].condition = resp.body[i].condition
                            /\ \A k \in 1..Len(resp.data) :
                                  resp.data[k].condition = resp.body[i].condition
                                     => resp.data[k].recorded_at <= resp.data[j].recorded_at}
            IN \E j \in tied : /\ resp.body[i] = resp.data[j]
                               /\ \A k \in tied : j >= k

(* Two rows of one condition with the same newest recorded_at and          *)
(* different prices were read, and one of them was returned.               *)
C25_Witness ==
    /\ resp.op = "prices.latest"
    /\ resp.status = 200
    /\ \E j, k \in 1..Len(resp.data) :
          /\ j < k
          /\ resp.data[j].condition = resp.data[k].condition
          /\ resp.data[j].recorded_at = resp.data[k].recorded_at
          /\ resp.data[j].price # resp.data[k].price
          /\ \A n \in 1..Len(resp.data) :
                resp.data[n].condition = resp.data[j].condition
                   => resp.data[n].recorded_at <= resp.data[j].recorded_at
          /\ \E i \in 1..Len(resp.body) : resp.body[i] = resp.data[j]

----------------------------------------------------------------------------
(* Updates: a user adds entries to the collection, and price rows and      *)
(* entries are updated with values the guards of their creation refuse and *)
(* with values they accept.                                                *)

PriceUpdateBodies ==
    {[price |-> Some(0)], [price |-> Some(50000)],
     [condition |-> Some("poor")], [condition |-> Some("mint")],
     [currency |-> Some("XXX")], [currency |-> Some("USD")]}

NextUpdates ==
    \/ \E u \in PriceUpdateBodies : PricePut(1, u)
    \/ \E b \in OwnerPosts :
          /\ nextCollId <= MaxCollInserts
          /\ CollPost(Some("u1"), b.card_id, b.condition, b.quantity)
    \/ \E i \in {1, 2}, u \in CollUpdates : CollPut(Some("u1"), i, u)

SpecUpdates == Init /\ [][NextUpdates]_vars

(* C26.  An update of a price row to a price of 0 or less, or to a         *)
(* condition or a currency outside the valid ones, and an update of a      *)
(* collection entry to a quantity of 0 or less or to a condition outside   *)
(* the valid ones, is refused by a guard of the service and leaves the     *)
(* store as it was.                                                        *)
C26_UpdatesGuardedAsCreates ==
    [][LET u == resp'.req.updates
           Refused(name, valid) == IsSome(Field(u, name)) /\ Val(Field(u, name)) \notin valid
           NotPositive(name) == IsSome(Field(u, name)) /\ Val(Field(u, name)) <= 0
       IN (\/ /\ resp'.op = "prices.update"
              /\ \/ NotPositive("price")
                 \/ Refused("condition", validConditions)
                 \/ Refused("currency", validCurrencies)
           \/ /\ resp'.op = "collections.update"
              /\ \/ NotPositive("quantity")
                 \/ Refused("condition", validConditions))
          => (resp'.error \in ServiceErrors /\ store' = store)]_vars

----------------------------------------------------------------------------
(* Statistics read side by side with changes of the collection.            *)
(* getCollectionStats makes two store calls, the count and then the select *)
(* of the entries with their prices; each call is one step, and steps of   *)
(* other requests may come between the two.                                *)

(* GET /collections/stats, first call: the count of the user's entries.    *)
(* The request in flight also records, as .counted, the ids of the entries *)
(* counted.                                                                *)
CollStatsCount(authHeader) ==
    LET req == [auth |-> authHeader]
        userId == Val(GetUser(authHeader))
    IN /\ Cardinality(pending) < MaxPending
       /\ IF AuthError(authHeader) # ""
          THEN /\ resp' = Failure("collections.stats", req, 401, AuthError(authHeader), 0)
               /\ UNCHANGED pending
          ELSE /\ pending' = pending \cup
                      {[t |-> FreeTicket, op |-> "collections.stats", req |-> req,
                        totalCards |-> Cardinality(EntriesOf(userId)),
                        counted |-> {e.id : e \in EntriesOf(userId)}]}
               /\ resp' = NoRequest
       /\ UNCHANGED <<store, now, fetched>>

(* GET /collections/stats, second call: the select, and the answer.  The   *)
(* reply also records .counted and, as .visible, the ids of the user's     *)
(* entries in the store when the select is made.                           *)
CollStatsRead(p) ==
    LET userId == Val(GetUser(p.req.auth))
    IN /\ p \in pending
       /\ p.op = "collections.stats"
       /\ pending' = pending \ {p}
       /\ \E data \in StatsQuery(userId) :
             resp' = [joined |-> IsSome(data), counted |-> p.counted,
                      visible |-> {e.id : e \in EntriesOf(userId)}] @@
                     Reply("collections.stats", p.req, 200,
                           CollectionRepository_getCollectionStats(p.totalCards, data), 2)
       /\ UNCHANGED <<store, now, fetched>>

NextStatsRace ==
    \/ \E a \in {Absent, Some("u1")} : CollStatsCount(a)
    \/ \E p \in pending : CollStatsRead(p)
    \/ \E b \in OwnerPosts :
          /\ nextCollId <= MaxCollInserts
          /\ CollPost(Some("u1"), b.card_id, b.condition, b.quantity)
    \/ \E i \in {1, 2} : CollDelete(Some("u1"), i)

SpecStatsRace == Init /\ [][NextStatsRace]_vars

(* C29.  The statistics answered while entries of the same user are added  *)
(* and removed describe one state of the store: the entries counted in     *)
(* totalCards are the entries in the store when the select behind          *)
(* totalValue and rarest is made.                                          *)
C29_StatsOfOneState ==
    (resp.op = "collections.stats" /\ resp.status = 200) =>
        /\ resp.counted = resp.visible
        /\ resp.body.totalCards = Cardinality(resp.visible)

----------------------------------------------------------------------------
(* The client: ApiClient.makeRequest.  A request's course is decided by    *)
(* the outcome of the session lookup and the outcome of fetch:             *)
(*   session  = [kind |-> "rejects", thrown, token] with thrown the        *)
(*              message of the Error thrown, absent when the value thrown  *)
(*              is no Error; or kind "resolves" with token the session's   *)
(*              access token, absent without a session;                    *)
(*   response = [kind |-> "failure", ...] when fetch rejects, or kind      *)
(*              "response" with its status, its statusText and its body;   *)
(*   body     = [json, error, data]: whether the text parses as JSON, the  *)
(*              error field of the object parsed, the object's other       *)
(*              content.                                                   *)
(* The value of makeRequest is [settled, value, authorization]: whether    *)
(* the promise resolves or rejects, the object or the error it settles     *)
(* with, and the Authorization header sent.                                *)

Resolved(value, authorization) ==
    [settled |-> "resolved", value |-> value, authorization |-> authorization]

(* catch (error): error instanceof Error ? error.message : 'Unknown error  *)
(* occurred'                                                               *)
CaughtError(thrown) == [error |-> OrElse(thrown, "Unknown error occurred")]

(* response.ok *)
ResponseOk(response) == response.status >= 200 /\ response.status <= 299

(* `HTTP ${response.status}: ${response.statusText}` *)
HttpMessage(response) ==
    "HTTP " \o ToString(response.status) \o ": " \o response.statusText

(* What makeRequest does once the session lookup has resolved. *)
AfterSession(session, response) ==
    LET authorization == IF IsSome(session.token) THEN Some(<<"Bearer", Val(session.token)>>)
                         ELSE Absent
        body == response.body
    IN IF response.kind = "failure"
       THEN Resolved(CaughtError(Some("Failed to fetch")), authorization)
       ELSE IF ~ResponseOk(response)
       THEN IF body.json /\ IsSome(body.error)
            THEN Resolved(CaughtError(body.error), authorization)
            ELSE Resolved(CaughtError(Some(HttpMessage(response))), authorization)
       ELSE IF ~body.json
       THEN Resolved(CaughtError(Some("Unexpected end of JSON input")), authorization)
       ELSE Resolved([data |-> body.data], authorization)

(* A variant of makeRequest with the session lookup before the try block. *)
ApiClient_makeRequestLookupOutside(session, response) ==
    IF session.kind = "rejects"
    THEN [settled |-> "rejected", value |-> [thrown |-> session.thrown],
          authorization |-> Absent]
    ELSE AfterSession(session, response)

(* makeRequest: everything runs inside try, and catch turns whatever is    *)
(* thrown into { error }.                                                  *)
ApiClient_makeRequest(session, response) ==
    IF session.kind = "rejects"
    THEN Resolved(CaughtError(session.thrown), Absent)
    ELSE AfterSession(session, response)

(* One call of makeRequest. *)
ClientRequest(endpoint, session, response) ==
    LET result == ApiClient_makeRequest(session, response)
    IN /\ resp' = [settled |-> result.settled, authorization |-> result.authorization] @@
                  Reply("client.makeRequest",
                        [endpoint |-> endpoint, session |-> session, response |-> response],
                        IF response.kind = "response" THEN response.status ELSE 0,
                        result.value,
                        IF session.kind = "resolves" THEN 1 ELSE 0)
       /\ UNCHANGED <<store, now, fetched, pending>>

ClientSessions ==
    {[kind |-> "rejects", thrown |-> Some("Auth session missing!"), token |-> Absent],
     [kind |-> "rejects", thrown |-> Absent, token |-> Absent],
     [kind |-> "resolves", thrown |-> Absent, token |-> Absent],
     [kind |-> "resolves", thrown |-> Absent, token |-> Some("u1")]}

ClientBodies ==
    {[json |-> FALSE, error |-> Absent, data |-> Absent],
     [json |-> TRUE, error |-> Some("Card not found"), data |-> Absent],
     [json |-> TRUE, error |-> Some("Unauthorized"), data |-> Absent],
     [json |-> TRUE, error |-> Absent, data |-> Some("Dark Magician")]}

ClientResponses ==
    {[kind |-> "failure", status |-> 0, statusText |-> "", body |-> b] :
        b \in {[json |-> FALSE, error |-> Absent, data |-> Absent]}}
    \cup {[kind |-> "response", status |-> s, statusText |-> t, body |-> b] :
             s \in {200, 201, 400, 401, 404, 405, 500}, t \in {"", "Error"}, b \in ClientBodies}

NextClient ==
    \E e \in {"/cards", "/collections/stats"}, s \in ClientSessions, r \in ClientResponses :
        ClientRequest(e, s, r)

SpecClient == Init /\ [][NextClient]_vars

(* C30.  makeRequest never throws: whatever the session lookup, fetch and  *)
(* the parsing of the body do, its promise resolves to an object that has  *)
(* exactly one of the fields data and error, and error is the error string *)
(* of the response's body when the response is not ok and its body has     *)
(* one.                                                                    *)
C30_MakeRequestSettlesOneField ==
    resp.op = "client.makeRequest" =>
        LET session == resp.req.session
            response == resp.req.response
        IN /\ resp.settled = "resolved"
           /\ DOMAIN resp.body \in {{"data"}, {"error"}}
           /\ (/\ session.kind = "resolves"
               /\ response.kind = "response"
               /\ response.status \notin 200..299
               /\ response.body.json
               /\ IsSome(response.body.error))
                 => resp.body = [error |-> Val(response.body.error)]
           /\ "data" \in DOMAIN resp.body =>
                 /\ session.kind = "resolves"
                 /\ response.kind = "response"
                 /\ response.status \in 200..299
                 /\ response.body.json

(* A 404 whose body carries the server's error string has been received    *)
(* with a session, and the string is the error of the result.              *)
C30_Witness ==
    /\ resp.op = "client.makeRequest"
    /\ resp.req.session.token = Some("u1")
    /\ resp.req.response.status = 404
    /\ resp.req.response.body.error = Some("Card not found")
    /\ resp.settled = "resolved"
    /\ resp.body = [error |-> "Card not found"]

====
